---- MODULE Spec2Model ----
(***************************************************************************)
(* Model of the output-format resolution, the one-shot print session and   *)
(* the watch loop of kubectl get (pkg/printers, pkg/kubectl/cmd/resource). *)
(*                                                                         *)
(* Strings are sequences of tokens: a format string such as                *)
(* "go-template=a=b" is <<"go-template", "=", "tA", "=", "tB">>, so that   *)
(* strings.HasPrefix, slicing and strings.ToLower are computed, not        *)
(* assumed. A Go pointer is <<>> (nil) or <<v>> (pointer to v).            *)
(***************************************************************************)
EXTENDS Integers, Sequences, FiniteSets, TLC

VARIABLES
    \* ---- format resolution (pkg/printers) ----
    entry,            \* the resolution function called last
    inFormat,         \* the outputFormat argument of that call
    inTemplate,       \* f.TemplateArgument (or formatArgument) before that call
    inArgs,           \* the other arguments and receiver fields of that call
    res,              \* what the call returned
    TemplateArgument, \* TemplatePrintFlags.TemplateArgument (*string)
    OutputFormat,     \* TemplatePrintFlags.OutputFormat
    \* ---- one-shot print session (GetOptions.Run, printGeneric) ----
    rpc,              \* "idle", "loop" (the render loop), "done" (returned)
    ropts,            \* the GetOptions fields and the fetch outcome of the run
    infos,            \* r.Infos(): the fetched items, in fetch order
    sorter,           \* display position -> fetch position (<<>>: no sorter)
    ix,               \* the render loop's index
    allErrs,          \* the errors collected by the render loop
    nonEmptyObjCount, \* the loop's counter of the same name
    printCalls,       \* fetch positions PrintObj was called on, in call order
    buf,              \* the tab writer's buffer
    outSink,          \* options.Out
    errOut,           \* options.ErrOut
    flushes,          \* number of out.Flush() calls
    ret,              \* the returned error
    \* ---- watch loop (GetOptions.watch) ----
    wpc,              \* "idle", "snapshot", "open", "streaming", "stopping",
                      \* "returned", "exited"
    wopts,            \* options.WatchOnly, isList and rv of the watch
    fetched,          \* the items of r.Object(): the object, or the list's members
    wix,              \* index of the snapshot loop
    first,            \* the variable of the same name
    renders,          \* the PrintObj calls of watch, in call order
    delivered,        \* number of events the callback of watch.Until received
    writer,           \* the tab writer of the snapshot
    wout,             \* options.Out
    wret,             \* the returned error
    sub,              \* the subscription r.Watch opened
    untilErr,         \* the error watch.Until returned to intr.Run
    intr,             \* a termination signal was received
    inflight,         \* the PrintObj call of the callback that has not returned
    \* ---- the command (the Run closure of NewCmdGet) ----
    cpc,              \* "new", "completed", "validated", "ran", "fatal"
    cflags,           \* the flags and arguments of the invocation
    cerr,             \* the error handed to cmdutil.CheckErr
    fetches,          \* requests issued to the server
    \* ---- options.PrintObj on the table printer ----
    hpc,              \* "new", "ready", "panicked"
    hopts,            \* --no-headers and options.ShowKind
    hprinter,         \* the printer the closure captured
    hstream,          \* the kinds of the objects printed so far
    hout,             \* the lines written: headers and rows
    \* ---- kubectl ns (sample-cli-plugin) ----
    npc,              \* "new", "completed", "done"
    nopts,            \* newContextName, newClusterValue and the namespace asked for
    rawConfig,        \* o.rawConfig
    kubeconfig,       \* the KUBECONFIG file
    nout,             \* o.Out
    nret              \* the returned error ("": nil)

resolveVars == <<entry, inFormat, inTemplate, inArgs, res, TemplateArgument, OutputFormat>>

runVars == <<rpc, ropts, infos, sorter, ix, allErrs, nonEmptyObjCount, printCalls, buf,
             outSink, errOut, flushes, ret>>

watchVars == <<wpc, wopts, fetched, wix, first, renders, delivered, writer, wout, wret,
               sub, untilErr, intr, inflight>>

cmdVars == <<cpc, cflags, cerr, fetches>>

hdrVars == <<hpc, hopts, hprinter, hstream, hout>>

nsVars == <<npc, nopts, rawConfig, kubeconfig, nout, nret>>

cliVars == <<cmdVars, hdrVars, nsVars>>

vars == <<resolveVars, runVars, watchVars, cliVars>>

----------------------------------------------------------------------------
\* Bounds of the model.

\* longest PrinterBuilders list handed to the builder chain
MaxBuilders == 3

\* most items one fetch returns
MaxItems == 3

\* most events one watch delivers
MaxEvents == 3

\* most objects one stream hands to options.PrintObj
MaxStream == 4

----------------------------------------------------------------------------
\* Strings, pointers, files.

EQ == "="

HasPrefix(s, p) == Len(s) >= Len(p) /\ SubSeq(s, 1, Len(p)) = p

\* s[n:] of Go, n counted in tokens
SliceFrom(s, n) == SubSeq(s, n + 1, Len(s))

LowerTok(t) == IF t = "JSON" THEN "json" ELSE IF t = "YAML" THEN "yaml" ELSE t

ToLower(s) == [i \in 1..Len(s) |-> LowerTok(s[i])]

NilPtr == <<>>

Ptr(v) == <<v>>

\* the words a format string may start with
KindWords ==
    {"json", "yaml", "name", "wide", "JSON", "foo", "template", "templatefile",
     "go-template", "go-template-file", "jsonpath", "jsonpath-file",
     "custom-columns", "custom-columns-file"}

\* the words the model follows by "=<rest>"
PrefixWords ==
    {"template", "go-template", "go-template-file", "jsonpath", "jsonpath-file",
     "custom-columns", "custom-columns-file"}

\* template texts and paths: tA, tB compile, tBad does not; p1 is a readable file
Rests == {<<>>, <<"tBad">>, <<"p1">>, <<"tA", EQ, "tB">>}

FormatStrings ==
    {<<>>} \cup {<<w>> : w \in KindWords}
           \cup {<<w, EQ>> \o r : w \in PrefixWords, r \in Rests}

TemplatePtrs == {NilPtr} \cup {Ptr(r) : r \in Rests}

\* *bool values: nil, &true, &false
BoolPtrs == {NilPtr, Ptr(TRUE), Ptr(FALSE)}

\* ioutil.ReadFile / os.Open: p1 is the one readable file, holding template tA
Readable(path) == path = <<"p1">>

FileData(path) == <<"tA">>

\* a template or expression with a syntax error
Malformed(t) == \E i \in 1..Len(t) : t[i] = "tBad"

----------------------------------------------------------------------------
\* Printers and errors.

Printer(kind, arg, ensure, allowMissing) ==
    [kind |-> kind, arg |-> arg, ensure |-> ensure, allowMissing |-> allowMissing]

NilPrinter == Printer("nil", <<>>, {}, FALSE)

ErrNone == [msg |-> "", names |-> <<>>]

\* fmt.Errorf(msg, names): the message text and the value it formats in
Errorf(msg, names) == [msg |-> msg, names |-> names]

Ret(p, matched, err) == [printer |-> p, matched |-> matched, err |-> err, consulted |-> 0]

JSONPrinter == Printer("Json", <<>>, {}, FALSE)

YAMLPrinter == Printer("Yaml", <<>>, {}, FALSE)

NamePrinter == Printer("Name", <<>>, {}, FALSE)

\* NewGoTemplatePrinter / NewTemplatePrinter([]byte): compiles a Go template
NewGoTemplatePrinter(tmpl) ==
    IF Malformed(tmpl)
    THEN [printer |-> NilPrinter, err |-> Errorf("template parse error", tmpl)]
    ELSE [printer |-> Printer("GoTemplate", tmpl, {}, FALSE), err |-> ErrNone]

\* NewJSONPathPrinter(string): compiles a JSONPath expression
NewJSONPathPrinter(tmpl) ==
    IF Malformed(tmpl)
    THEN [printer |-> NilPrinter, err |-> Errorf("jsonpath parse error", tmpl)]
    ELSE [printer |-> Printer("JSONPath", tmpl, {}, FALSE), err |-> ErrNone]

\* NewCustomColumnsPrinterFromSpec(spec, decoder, noHeaders)
NewCustomColumnsPrinterFromSpec(spec, noHeaders) ==
    IF Len(spec) = 0 \/ Malformed(spec)
    THEN [printer |-> NilPrinter, err |-> Errorf("custom-columns spec error", spec)]
    ELSE [printer |-> Printer("CustomColumns", spec,
                              IF noHeaders THEN {} ELSE {"headers"}, FALSE),
          err |-> ErrNone]

\* NewCustomColumnsPrinterFromTemplate(reader, decoder)
NewCustomColumnsPrinterFromTemplate(data) ==
    IF Len(data) = 0 \/ Malformed(data)
    THEN [printer |-> NilPrinter, err |-> Errorf("custom-columns template error", data)]
    ELSE [printer |-> Printer("CustomColumns", data, {"headers"}, FALSE), err |-> ErrNone]

\* NewHumanReadablePrinter(encoder, decoder, options): the table printer with
\* the display options of PrintOptions
NewHumanReadablePrinter(options) ==
    Printer("HumanTable", <<>>,
            (IF options.Wide THEN {"wide"} ELSE {})
              \cup (IF options.NoHeaders THEN {} ELSE {"headers"}),
            FALSE)

\* p.AllowMissingKeys(b)
WithAllowMissingKeys(p, b) == [p EXCEPT !.allowMissing = b]

----------------------------------------------------------------------------
\* pkg/printers/printers.go: GetStandardPrinter. formatArgument is the free
\* identifier its custom-columns cases read.

\* a default case that forgets which format it rejects
NotRecognized_Unnamed(format) ==
    Ret(NilPrinter, FALSE, Errorf("output format not recognized", <<>>))

\* the switch's default case
NotRecognized(format) ==
    Ret(NilPrinter, FALSE, Errorf("output format not recognized", format))

GetStandardPrinter(format, formatArgument, options) ==
    CASE format = <<"json">> -> Ret(JSONPrinter, TRUE, ErrNone)
      [] format = <<"yaml">> -> Ret(YAMLPrinter, TRUE, ErrNone)
      [] format = <<"name">> -> Ret(NamePrinter, TRUE, ErrNone)
      [] format = <<"custom-columns">> ->
            LET r == NewCustomColumnsPrinterFromSpec(formatArgument, options.NoHeaders)
            IN  IF r.err # ErrNone THEN Ret(NilPrinter, FALSE, r.err)
                ELSE Ret(r.printer, TRUE, ErrNone)
      [] format = <<"custom-columns-file">> ->
            IF ~Readable(formatArgument)
            THEN Ret(NilPrinter, FALSE, Errorf("error reading template", formatArgument))
            ELSE LET r == NewCustomColumnsPrinterFromTemplate(FileData(formatArgument))
                 IN  IF r.err # ErrNone THEN Ret(NilPrinter, FALSE, r.err)
                     ELSE Ret(r.printer, TRUE, ErrNone)
      [] format = <<"wide">> \/ format = <<>> ->
            Ret(NewHumanReadablePrinter(options), TRUE, ErrNone)
      [] OTHER -> NotRecognized(format)

----------------------------------------------------------------------------
\* pkg/printers/json_yaml_flags.go: the flag structs' ToPrinter methods.

JSONYamlPrintFlags_ToPrinter(outputFormat) ==
    IF Len(outputFormat) = 0
    THEN Ret(NilPrinter, FALSE, Errorf("missing output format", <<>>))
    ELSE LET lower == ToLower(outputFormat)
         IN  IF lower # <<"json">> /\ lower # <<"yaml">>
             THEN Ret(NilPrinter, FALSE, ErrNone)
             ELSE IF lower = <<"json">> THEN Ret(JSONPrinter, TRUE, ErrNone)
             ELSE Ret(YAMLPrinter, TRUE, ErrNone)

IsSet(p) == p # NilPtr /\ p[1]

HumanPrintFlags_ToPrinter(f, outputFormat, encoder, decoder) ==
    IF Len(outputFormat) > 0 /\ outputFormat # <<"wide">>
    THEN Ret(NilPrinter, FALSE, ErrNone)
    ELSE IF ~encoder \/ ~decoder
    THEN Ret(NilPrinter, FALSE,
             Errorf("both an encoder and decoder must be specified for this printer", <<>>))
    ELSE LET ensure ==
                  (IF f.NoHeaders # NilPtr /\ ~f.NoHeaders[1] THEN {"headers"} ELSE {})
             \cup (IF IsSet(f.WithNamespace) THEN {"namespace"} ELSE {})
             \cup (IF IsSet(f.ShowLabels) THEN {"labels"} ELSE {})
             \cup (IF IsSet(f.AbsoluteTimestamps) THEN {"absolute-timestamps"} ELSE {})
             \cup (IF IsSet(f.Wide) THEN {"wide"} ELSE {})
             \cup (IF Len(f.Kind) > 0 THEN {"kind"} ELSE {})
             \cup (IF f.ColumnLabels # NilPtr /\ Len(f.ColumnLabels[1]) > 0
                   THEN {"column-labels"} ELSE {})
             \* f.SortBy: the branch is empty
         IN  Ret(Printer("HumanTable", <<>>, ensure, FALSE), TRUE, ErrNone)

\* the "for format := range formats" loop that splits "<format>=<rest>": at
\* most one format matches, after which outputFormat holds no "="
SplitFormat(formats, outputFormat, templateArg) ==
    LET hit == {w \in formats : HasPrefix(outputFormat, <<w, EQ>>)}
    IN  IF hit = {} THEN [format |-> outputFormat, arg |-> templateArg]
        ELSE [format |-> <<CHOOSE w \in hit : TRUE>>, arg |-> SliceFrom(outputFormat, 2)]

AllowMissingOf(f) == IF f.AllowMissingKeys # NilPtr THEN f.AllowMissingKeys[1] ELSE TRUE

GoTemplateFormats == {"template", "go-template", "go-template-file", "templatefile"}

GoTemplatePrintFlags_ToPrinter(f, outputFormat) ==
    IF f.TemplateArgument = NilPtr \/ Len(f.TemplateArgument[1]) = 0
    THEN Ret(NilPrinter, FALSE, Errorf("missing --template argument", <<>>))
    ELSE LET s == SplitFormat(GoTemplateFormats, outputFormat, f.TemplateArgument[1])
         IN  IF ~(Len(s.format) = 1 /\ s.format[1] \in GoTemplateFormats)
             THEN Ret(NilPrinter, FALSE, ErrNone)
             ELSE LET r == NewGoTemplatePrinter(s.arg)
                  IN  IF r.err # ErrNone THEN Ret(NilPrinter, TRUE, r.err)
                      ELSE Ret(WithAllowMissingKeys(r.printer, AllowMissingOf(f)), TRUE, ErrNone)

JSONPathFormats == {"jsonpath", "jsonpath-file"}

JSONPathPrintFlags_ToPrinter(f, outputFormat) ==
    IF f.TemplateArgument = NilPtr \/ Len(f.TemplateArgument[1]) = 0
    THEN Ret(NilPrinter, FALSE, Errorf("missing --template value", <<>>))
    ELSE LET s == SplitFormat(JSONPathFormats, outputFormat, f.TemplateArgument[1])
         IN  IF ~(Len(s.format) = 1 /\ s.format[1] \in JSONPathFormats)
             THEN Ret(NilPrinter, FALSE, ErrNone)
             ELSE LET r == NewJSONPathPrinter(s.arg)
                  IN  IF r.err # ErrNone THEN Ret(NilPrinter, TRUE, r.err)
                      ELSE Ret(WithAllowMissingKeys(r.printer, AllowMissingOf(f)), TRUE, ErrNone)

----------------------------------------------------------------------------
\* TemplatePrintFlags.ToPrinter, the single-builder version (returns matched).

TemplateFormats == {"go-template", "go-template-file", "jsonpath", "jsonpath-file"}

TemplatePrintFlags_ToPrinter(f, outputFormat) ==
    IF f.TemplateArgument = NilPtr
    THEN Ret(NilPrinter, TRUE, Errorf("missing --template argument", <<>>))
    ELSE LET templateArg == f.TemplateArgument[1]
             defaulted == IF Len(outputFormat) = 0 /\ Len(templateArg) > 0
                          THEN <<"go-template">> ELSE outputFormat
             s == SplitFormat(TemplateFormats, defaulted, templateArg)
         IN  IF ~(Len(s.format) = 1 /\ s.format[1] \in TemplateFormats)
                /\ s.format # <<"template">>
             THEN Ret(NilPrinter, FALSE, ErrNone)
             ELSE LET r == NewGoTemplatePrinter(s.arg)
                  IN  IF r.err # ErrNone THEN Ret(NilPrinter, TRUE, r.err)
                      ELSE Ret(WithAllowMissingKeys(r.printer, AllowMissingOf(f)), TRUE, ErrNone)

----------------------------------------------------------------------------
\* GetStandardPrinter, the version that delegates to the flag structs.

noPrinterMatchedErr == Errorf("unable to match a printer to handle current print options", <<>>)

\* KubeTemplatePrintFlags.ToPrinter: the JSONPath flags first, then the Go
\* template flags
KubeTemplatePrintFlags_ToPrinter(f, outputFormat) ==
    LET j == JSONPathPrintFlags_ToPrinter(f, outputFormat)
    IN  IF j.matched THEN j ELSE GoTemplatePrintFlags_ToPrinter(f, outputFormat)

GetStandardPrinterWithFlags(format, formatArgument, options) ==
    LET custom == GetStandardPrinter(format, formatArgument, options)
        isFile == format \in {<<"templatefile">>, <<"go-template-file">>, <<"jsonpath-file">>}
        isTpl  == format \in {<<"template">>, <<"go-template">>, <<"jsonpath">>}
    IN  CASE format \in {<<"json">>, <<"yaml">>} ->
               LET r == JSONYamlPrintFlags_ToPrinter(format)
               IN  IF ~r.matched THEN Ret(NilPrinter, FALSE, noPrinterMatchedErr)
                   ELSE IF r.err # ErrNone THEN Ret(NilPrinter, FALSE, r.err)
                   ELSE Ret(r.printer, TRUE, ErrNone)
          [] isFile /\ Len(formatArgument) = 0 ->
               Ret(NilPrinter, FALSE,
                   Errorf("format specified but no template file given", format))
          [] isFile /\ Len(formatArgument) # 0 /\ ~Readable(formatArgument) ->
               Ret(NilPrinter, FALSE, Errorf("error reading --template", formatArgument))
          [] isTpl \/ (isFile /\ Len(formatArgument) # 0 /\ Readable(formatArgument)) ->
               LET arg == IF isFile THEN FileData(formatArgument) ELSE formatArgument
                   r == KubeTemplatePrintFlags_ToPrinter(
                            [TemplateArgument |-> Ptr(arg),
                             AllowMissingKeys |-> Ptr(options.AllowMissingKeys)],
                            format)
               IN  IF ~r.matched THEN Ret(NilPrinter, FALSE, noPrinterMatchedErr)
                   ELSE IF r.err # ErrNone THEN Ret(NilPrinter, FALSE, r.err)
                   ELSE Ret(r.printer, TRUE, ErrNone)
          [] OTHER -> custom

----------------------------------------------------------------------------
\* TemplatePrintFlags.ToPrinter, the builder-chain version. A builder is a
\* func(*TemplatePrintFlags) (ResourcePrinter, bool, error): it is modelled by
\* what it returns on the flags of the call.

BuilderOutcomes == [matched : BOOLEAN, fails : BOOLEAN]

RECURSIVE SeqsUpTo(_, _)
SeqsUpTo(S, n) ==
    IF n = 0 THEN {<<>>}
    ELSE LET shorter == SeqsUpTo(S, n - 1)
         IN  shorter \cup {Append(q, x) : q \in {r \in shorter : Len(r) = n - 1}, x \in S}

BuilderErr(i) == Errorf("builder construction error", <<>>)

\* the part of ToPrinter that sets f.OutputFormat and f.TemplateArgument
ChainPrefixes ==
    <<"go-template", "go-template-file", "jsonpath", "jsonpath-file",
      "custom-columns", "custom-columns-file">>

RECURSIVE FirstPrefix(_, _)
FirstPrefix(of, i) ==
    IF i > Len(ChainPrefixes) THEN 0
    ELSE IF HasPrefix(of, <<ChainPrefixes[i], EQ>>) THEN i
    ELSE FirstPrefix(of, i + 1)

TemplatePrintFlags_Parse(templateArgument, outputFormat) ==
    LET of0 == IF Len(outputFormat) = 0 /\ templateArgument # NilPtr
                  /\ Len(templateArgument[1]) # 0
               THEN <<"template">> ELSE outputFormat
        i == FirstPrefix(of0, 1)
    IN  IF i = 0 THEN [OutputFormat |-> of0, TemplateArgument |-> templateArgument]
        ELSE [OutputFormat |-> <<ChainPrefixes[i]>>,
              TemplateArgument |-> Ptr(SliceFrom(outputFormat, 2))]

\* a loop that skips a matched builder whose construction failed
RECURSIVE Builders_SkipFailed(_, _)
Builders_SkipFailed(builders, i) ==
    IF i > Len(builders)
    THEN [printer |-> NilPrinter, matched |-> FALSE,
          err |-> Errorf("no printers matched current flag values", <<>>),
          consulted |-> Len(builders)]
    ELSE IF ~builders[i].matched \/ builders[i].fails
    THEN Builders_SkipFailed(builders, i + 1)
    ELSE [printer |-> Printer("built", <<>>, {}, FALSE), matched |-> TRUE,
          err |-> ErrNone, consulted |-> i]

\* the "for _, builder := range f.PrinterBuilders" loop, from builder i on
RECURSIVE TemplatePrintFlags_Builders(_, _)
TemplatePrintFlags_Builders(builders, i) ==
    IF i > Len(builders)
    THEN [printer |-> NilPrinter, matched |-> FALSE,
          err |-> Errorf("no printers matched current flag values", <<>>),
          consulted |-> Len(builders)]
    ELSE IF ~builders[i].matched THEN TemplatePrintFlags_Builders(builders, i + 1)
    ELSE IF builders[i].fails
    THEN [printer |-> NilPrinter, matched |-> TRUE, err |-> BuilderErr(i), consulted |-> i]
    ELSE [printer |-> Printer("built", <<>>, {}, FALSE), matched |-> TRUE,
          err |-> ErrNone, consulted |-> i]

----------------------------------------------------------------------------
\* GetOptions.Complete: the table flags first, then the general resolver.

\* cmdutil.PrinterForOptions(cmdutil.ExtractCmdPrintOptions(cmd, ...))
PrinterForOptions(templateArgument, outputFormat) ==
    LET p == TemplatePrintFlags_Parse(templateArgument, outputFormat)
    IN  GetStandardPrinter(p.OutputFormat,
                           IF p.TemplateArgument = NilPtr THEN <<>> ELSE p.TemplateArgument[1],
                           [NoHeaders |-> FALSE, Wide |-> p.OutputFormat = <<"wide">>,
                            AllowMissingKeys |-> TRUE])

Complete_ToPrinter(f, templateArgument, outputFormat, encoder, decoder) ==
    LET h == HumanPrintFlags_ToPrinter(f, outputFormat, encoder, decoder)
        g == PrinterForOptions(templateArgument, outputFormat)
        printer == IF ~h.matched THEN g.printer ELSE h.printer
        err == IF ~h.matched THEN g.err ELSE h.err
    IN  [printer |-> IF err # ErrNone THEN NilPrinter ELSE printer,
         matched |-> h.matched, err |-> err,
         consulted |-> IF h.matched THEN 1 ELSE 2]

----------------------------------------------------------------------------
\* Resolution as a state machine: the flag value is bound, any of the
\* resolution functions is called with any format string, and the caller takes
\* the result.

NoArgs == [none |-> TRUE]

\* HumanPrintFlags values: every NoHeaders/Wide combination with the other
\* fields unset, and the other fields set (to true, or to their zero values)
\* with NoHeaders and Wide unset
HumanOtherFields ==
    {[WithNamespace |-> Ptr(TRUE), ShowLabels |-> Ptr(TRUE), AbsoluteTimestamps |-> Ptr(TRUE),
      Kind |-> <<"pod">>, ColumnLabels |-> Ptr(<<"l1">>)],
     [WithNamespace |-> Ptr(FALSE), ShowLabels |-> Ptr(FALSE), AbsoluteTimestamps |-> Ptr(FALSE),
      Kind |-> <<>>, ColumnLabels |-> Ptr(<<>>)]}

HumanFlagValues ==
    {[NoHeaders |-> nh, Wide |-> w, WithNamespace |-> NilPtr, ShowLabels |-> NilPtr,
      AbsoluteTimestamps |-> NilPtr, Kind |-> <<>>, ColumnLabels |-> NilPtr]
       : nh \in BoolPtrs, w \in BoolPtrs}
    \cup
    {[NoHeaders |-> NilPtr, Wide |-> NilPtr, WithNamespace |-> o.WithNamespace,
      ShowLabels |-> o.ShowLabels, AbsoluteTimestamps |-> o.AbsoluteTimestamps,
      Kind |-> o.Kind, ColumnLabels |-> o.ColumnLabels] : o \in HumanOtherFields}

PrintOptionValues == [NoHeaders : BOOLEAN, Wide : BOOLEAN, AllowMissingKeys : BOOLEAN]

FormatArgument == IF TemplateArgument = NilPtr THEN <<>> ELSE TemplateArgument[1]

\* the call's record: entry point, arguments, result
Called(name, format, args, r) ==
    /\ entry' = name
    /\ inFormat' = format
    /\ inTemplate' = TemplateArgument
    /\ inArgs' = args
    /\ res' = r
    /\ UNCHANGED <<runVars, watchVars, cliVars>>

\* AddFlags binds --template to *f.TemplateArgument; a struct literal may
\* leave the pointer nil
SetTemplateFlag ==
    /\ entry = "none"
    /\ \E t \in TemplatePtrs : TemplateArgument' = t
    /\ UNCHANGED <<entry, inFormat, inTemplate, inArgs, res, OutputFormat>>
    /\ UNCHANGED <<runVars, watchVars, cliVars>>

CallGetStandardPrinter ==
    /\ entry = "none"
    /\ \E format \in FormatStrings, o \in PrintOptionValues :
          Called("GetStandardPrinter", format, o,
                 GetStandardPrinter(format, FormatArgument, o))
    /\ UNCHANGED <<TemplateArgument, OutputFormat>>

CallGetStandardPrinterWithFlags ==
    /\ entry = "none"
    /\ \E format \in FormatStrings, o \in PrintOptionValues :
          Called("GetStandardPrinterWithFlags", format, o,
                 GetStandardPrinterWithFlags(format, FormatArgument, o))
    /\ UNCHANGED <<TemplateArgument, OutputFormat>>

CallJSONYamlPrintFlags ==
    /\ entry = "none"
    /\ \E format \in FormatStrings :
          Called("JSONYamlPrintFlags", format, NoArgs, JSONYamlPrintFlags_ToPrinter(format))
    /\ UNCHANGED <<TemplateArgument, OutputFormat>>

CallHumanPrintFlags ==
    /\ entry = "none"
    /\ \E format \in FormatStrings, f \in HumanFlagValues, enc \in BOOLEAN, dec \in BOOLEAN :
          Called("HumanPrintFlags", format, [f |-> f, encoder |-> enc, decoder |-> dec],
                 HumanPrintFlags_ToPrinter(f, format, enc, dec))
    /\ UNCHANGED <<TemplateArgument, OutputFormat>>

CallGoTemplatePrintFlags ==
    /\ entry = "none"
    /\ \E format \in FormatStrings, amk \in BoolPtrs :
          Called("GoTemplatePrintFlags", format, [AllowMissingKeys |-> amk],
                 GoTemplatePrintFlags_ToPrinter(
                     [TemplateArgument |-> TemplateArgument, AllowMissingKeys |-> amk], format))
    /\ UNCHANGED <<TemplateArgument, OutputFormat>>

CallJSONPathPrintFlags ==
    /\ entry = "none"
    /\ \E format \in FormatStrings, amk \in BoolPtrs :
          Called("JSONPathPrintFlags", format, [AllowMissingKeys |-> amk],
                 JSONPathPrintFlags_ToPrinter(
                     [TemplateArgument |-> TemplateArgument, AllowMissingKeys |-> amk], format))
    /\ UNCHANGED <<TemplateArgument, OutputFormat>>

CallTemplatePrintFlags ==
    /\ entry = "none"
    /\ \E format \in FormatStrings, amk \in BoolPtrs :
          Called("TemplatePrintFlags", format, [AllowMissingKeys |-> amk],
                 TemplatePrintFlags_ToPrinter(
                     [TemplateArgument |-> TemplateArgument, AllowMissingKeys |-> amk], format))
    /\ UNCHANGED <<TemplateArgument, OutputFormat>>

\* the builder-chain ToPrinter writes f.OutputFormat and f.TemplateArgument
CallTemplatePrintFlagsBuilders ==
    /\ entry = "none"
    /\ \E format \in FormatStrings, builders \in SeqsUpTo(BuilderOutcomes, MaxBuilders) :
       LET p == TemplatePrintFlags_Parse(TemplateArgument, format)
       IN  /\ Called("TemplatePrintFlagsBuilders", format, [builders |-> builders],
                     TemplatePrintFlags_Builders(builders, 1))
           /\ OutputFormat' = p.OutputFormat
           /\ TemplateArgument' = p.TemplateArgument

CallComplete ==
    /\ entry = "none"
    /\ \E format \in FormatStrings, f \in HumanFlagValues, codec \in BOOLEAN :
          Called("Complete", format, [f |-> f, encoder |-> codec, decoder |-> codec],
                 Complete_ToPrinter(f, TemplateArgument, format, codec, codec))
    /\ UNCHANGED <<TemplateArgument, OutputFormat>>

\* the caller takes the result; the flags object lives on
Return ==
    /\ entry # "none"
    /\ entry' = "none"
    /\ inFormat' = <<>>
    /\ inTemplate' = NilPtr
    /\ inArgs' = NoArgs
    /\ res' = Ret(NilPrinter, FALSE, ErrNone)
    /\ UNCHANGED <<TemplateArgument, OutputFormat>>
    /\ UNCHANGED <<runVars, watchVars, cliVars>>

ResolveNext ==
    \/ SetTemplateFlag
    \/ Return
    \/ CallGetStandardPrinter
    \/ CallGetStandardPrinterWithFlags
    \/ CallJSONYamlPrintFlags
    \/ CallHumanPrintFlags
    \/ CallGoTemplatePrintFlags
    \/ CallJSONPathPrintFlags
    \/ CallTemplatePrintFlags
    \/ CallTemplatePrintFlagsBuilders
    \/ CallComplete

----------------------------------------------------------------------------
\* Errors of k8s.io/apimachinery/pkg/util/errors: nil, a plain error, or an
\* aggregate of errors.

NoError == [agg |-> FALSE, msg |-> "", errs |-> <<>>]

Leaf(m) == [agg |-> FALSE, msg |-> m, errs |-> <<>>]

\* utilerrors.NewAggregate: nil for a list without errors
NewAggregate(list) ==
    LET kept == SelectSeq(list, LAMBDA e : e # NoError)
    IN  IF kept = <<>> THEN NoError ELSE [agg |-> TRUE, msg |-> "", errs |-> kept]

FilterOut_Nothing(err, ignoreNotFound) == err

\* Result.IgnoreErrors(kapierrors.IsNotFound) applied by Result.Infos()
FilterOut(err, ignoreNotFound) ==
    IF ~err.agg THEN (IF ignoreNotFound /\ err.msg = "notfound" THEN NoError ELSE err)
    ELSE NewAggregate(SelectSeq(err.errs,
                                LAMBDA e : ~(ignoreNotFound /\ e.msg = "notfound")))

\* utilerrors.Flatten on an aggregate whose members are plain errors or
\* aggregates of plain errors
RECURSIVE FlattenList(_)
FlattenList(list) ==
    IF list = <<>> THEN <<>>
    ELSE LET h == Head(list)
         IN  (IF h.agg THEN h.errs ELSE IF h = NoError THEN <<>> ELSE <<h>>)
               \o FlattenList(Tail(list))

Flatten(err) == IF err = NoError THEN NoError ELSE NewAggregate(FlattenList(err.errs))

\* utilerrors.Reduce
Reduce(err) ==
    IF err.agg /\ Len(err.errs) = 1 THEN err.errs[1]
    ELSE IF err.agg /\ Len(err.errs) = 0 THEN NoError
    ELSE err

----------------------------------------------------------------------------
\* The fetch (resource.Builder ... Do()) and what it returns.

PrintErrs == {"", "e1", "e2"}

SortKeys == {1, 2}

\* one fetched object: its kind, whether it decodes as a v1beta1.Table, the
\* rows of that table, the error PrintObj returns on it ("": none), its sort
\* key, and whether info.Object is a *metav1beta1.Table
Item(kind, decodes, rows, perr, key) ==
    [kind |-> kind, decodes |-> decodes, rows |-> rows, perr |-> perr, key |-> key,
     isTable |-> FALSE]

\* the server answers with Tables only when asked to (TransformRequests)
FetchedItems(o) ==
    {Item("Pod", FALSE, 1, e, k)
        : e \in PrintErrs, k \in (IF o.SortBy THEN SortKeys ELSE {1})}
    \cup (IF o.ServerPrint /\ ~o.GenericPrinter /\ ~o.SortBy
          THEN {Item("Table", FALSE, 1, e, 1) : e \in PrintErrs}
               \cup {Item("Table", TRUE, 1, e, 1) : e \in PrintErrs}
               \cup {Item("Table", TRUE, 0, "", 1)}
          ELSE {})

FetchErrs == {<<>>, <<Leaf("notfound")>>, <<Leaf("other")>>, <<Leaf("notfound"), Leaf("other")>>}

RunOptionValues ==
    [IgnoreNotFound : BOOLEAN, GenericPrinter : BOOLEAN, ServerPrint : BOOLEAN, SortBy : BOOLEAN]

\* a decodeIntoTable that takes any object for a table
decodeIntoTable_AnyKind(obj) == [table |-> [obj EXCEPT !.isTable = TRUE], err |-> NoError]

\* GetOptions.decodeIntoTable
decodeIntoTable(obj) ==
    IF obj.kind # "Table"
    THEN [table |-> obj, err |-> Leaf("attempt to decode non-Table object into a v1beta1.Table")]
    ELSE IF ~obj.decodes THEN [table |-> obj, err |-> Leaf("decode")]
    ELSE [table |-> [obj EXCEPT !.isTable = TRUE], err |-> NoError]

\* the loop of Run that replaces infos[ix].Object by its table
DecodeAll(o, items) ==
    [i \in 1..Len(items) |->
        IF o.ServerPrint /\ decodeIntoTable(items[i]).err = NoError
        THEN decodeIntoTable(items[i]).table
        ELSE items[i]]

OriginalPositions(n) == {p \in [1..n -> 1..n] : \A i, j \in 1..n : p[i] = p[j] => i = j}

\* kubectl.SortObjects: the sorter's OriginalPosition, a stable sort by key
SortObjects(items) ==
    CHOOSE p \in OriginalPositions(Len(items)) :
        \A i, j \in 1..Len(items) :
            i < j => \/ items[p[i]].key < items[p[j]].key
                     \/ (items[p[i]].key = items[p[j]].key /\ p[i] < p[j])

Chunk(isList, ids) == [list |-> isList, ids |-> ids]

----------------------------------------------------------------------------
\* GetOptions.Run, one-shot.

\* the options of the run and what the fetch gave it
RunOpts(o, fe, single, builderErr) ==
    [IgnoreNotFound |-> o.IgnoreNotFound, GenericPrinter |-> o.GenericPrinter,
     ServerPrint |-> o.ServerPrint, SortBy |-> o.SortBy, fetchErrs |-> fe,
     singleItemImplied |-> single, builderErr |-> builderErr]

\* a Run that builds a sorter whatever was asked and fetched
Sorts_Always(o, items) == TRUE

\* "if len(options.SortBy) > 0 && len(objs) > 1"
Sorts(o, items) == o.SortBy /\ Len(items) > 1

\* "return err" outside the render loop
Returns(o, fe, single, builderErr, items, err) ==
    /\ rpc' = "done"
    /\ ropts' = RunOpts(o, fe, single, builderErr)
    /\ infos' = items
    /\ ret' = err
    /\ UNCHANGED <<sorter, ix, allErrs, nonEmptyObjCount, buf, errOut, flushes>>

\* allErrs after PrintObj returned perr ("": no error)
Collect_OnlyFirst(errs, perr) == IF perr = "" \/ errs # <<>> THEN errs ELSE <<Leaf(perr)>>

Collect(errs, perr) == IF perr = "" THEN errs ELSE Append(errs, Leaf(perr))

\* the diagnostic written to options.ErrOut after the loop
Diagnostic_Always(count, ignoreNotFound) ==
    IF ~ignoreNotFound THEN <<"No resources found.">> ELSE <<>>

Diagnostic(count, ignoreNotFound) ==
    IF count = 0 /\ ~ignoreNotFound THEN <<"No resources found.">> ELSE <<>>

\* r.Err() != nil
RunBuilderError ==
    /\ rpc = "idle"
    /\ \E o \in RunOptionValues :
          /\ Returns(o, <<>>, FALSE, TRUE, <<>>, Leaf("builder"))
          /\ UNCHANGED <<outSink, printCalls>>
    /\ UNCHANGED <<resolveVars, watchVars, cliVars>>

\* the table path up to the render loop: Infos, decodeIntoTable, SortObjects
RunStart ==
    /\ rpc = "idle"
    /\ \E o \in RunOptionValues :
          /\ ~o.GenericPrinter
          /\ \E items \in SeqsUpTo(FetchedItems(o), MaxItems), fe \in FetchErrs :
                LET err == FilterOut(NewAggregate(fe), o.IgnoreNotFound)
                    sorts == Sorts(o, items)
                IN  IF err # NoError
                    THEN Returns(o, fe, FALSE, FALSE, items, err)
                         /\ UNCHANGED <<outSink, printCalls>>
                    ELSE \E sortFails \in (IF sorts THEN BOOLEAN ELSE {FALSE}) :
                            IF sortFails
                            THEN /\ Returns(o, fe, FALSE, FALSE, DecodeAll(o, items),
                                            Leaf("sort"))
                                 /\ UNCHANGED <<outSink, printCalls>>
                            ELSE /\ rpc' = "loop"
                                 /\ ropts' = RunOpts(o, fe, FALSE, FALSE)
                                 /\ infos' = DecodeAll(o, items)
                                 /\ sorter' = IF sorts THEN SortObjects(items) ELSE <<>>
                                 /\ ix' = 1
                                 /\ UNCHANGED <<allErrs, nonEmptyObjCount, printCalls, buf,
                                                outSink, errOut, flushes, ret>>
    /\ UNCHANGED <<resolveVars, watchVars, cliVars>>

\* the info the loop takes at its ix-th iteration: infos[ix], or with a
\* sorter infos[sorter.OriginalPosition(ix)]
InfoPosition_FetchOrder(s, i) == i

InfoPosition(s, i) == IF s # <<>> THEN s[i] ELSE i

\* "if table, isTable := ...; isTable { if len(table.Rows) == 0 { continue } }"
SkipsItem_Never(info) == FALSE

SkipsItem(info) == info.isTable /\ info.rows = 0

\* one iteration of "for ix := range objs"
RunItem ==
    /\ rpc = "loop"
    /\ ix <= Len(infos)
    /\ LET pos == InfoPosition(sorter, ix)
           info == infos[pos]
       IN  IF SkipsItem(info)
           THEN UNCHANGED <<allErrs, nonEmptyObjCount, printCalls, buf, outSink, flushes>>
           ELSE /\ outSink' = outSink \o buf
                /\ flushes' = flushes + 1
                /\ nonEmptyObjCount' = nonEmptyObjCount + 1
                /\ printCalls' = Append(printCalls, <<pos>>)
                /\ buf' = IF info.perr = "" THEN <<Chunk(FALSE, <<pos>>)>> ELSE <<>>
                /\ allErrs' = Collect(allErrs, info.perr)
    /\ ix' = ix + 1
    /\ UNCHANGED <<rpc, ropts, infos, sorter, errOut, ret>>
    /\ UNCHANGED <<resolveVars, watchVars, cliVars>>

\* after the loop: the last flush, the diagnostic, the aggregate
RunFinish ==
    /\ rpc = "loop"
    /\ ix > Len(infos)
    /\ outSink' = outSink \o buf
    /\ buf' = <<>>
    /\ flushes' = flushes + 1
    /\ errOut' = errOut \o Diagnostic(nonEmptyObjCount, ropts.IgnoreNotFound)
    /\ ret' = NewAggregate(allErrs)
    /\ rpc' = "done"
    /\ UNCHANGED <<ropts, infos, sorter, ix, allErrs, nonEmptyObjCount, printCalls>>
    /\ UNCHANGED <<resolveVars, watchVars, cliVars>>

----------------------------------------------------------------------------
\* GetOptions.printGeneric.

\* the first error PrintObj meets in the objects it is given ("": none)
RECURSIVE FirstPrintErr(_)
FirstPrintErr(items) ==
    IF items = <<>> THEN ""
    ELSE IF Head(items).perr # "" THEN Head(items).perr
    ELSE FirstPrintErr(Tail(items))

\* what the builder hands to printGeneric: with a single item implied, that
\* item (which may itself be a list) or the error of fetching it
GenericFetches(single) ==
    IF single
    THEN {[items |-> <<Item(k, FALSE, 1, e, 1)>>, fe |-> <<>>]
             : k \in {"Pod", "List"}, e \in PrintErrs}
         \cup {[items |-> <<>>, fe |-> fe] : fe \in FetchErrs \ {<<>>}}
    ELSE {[items |-> items, fe |-> fe]
             : items \in SeqsUpTo({Item("Pod", FALSE, 1, e, 1) : e \in PrintErrs}, MaxItems),
               fe \in FetchErrs}

GenericFailures == {"none", "conversion"}

\* a printGeneric that hands the items to PrintObj one by one
printGeneric_PerItem(o, items, fe, single, fail) ==
    [err |-> NoError, out |-> [i \in 1..Len(items) |-> Chunk(FALSE, <<i>>)],
     calls |-> [i \in 1..Len(items) |-> <<i>>]]

\* the result of printGeneric: what it returns and what it writes to
\* options.Out. fail: "conversion" (json.Marshal, runtime.Decode or
\* meta.ExtractList fails) or "none". PrinterForOptions does not fail here:
\* Complete called it with the same options to set GenericPrinter, and
\* returned its error.
printGeneric(o, items, fe, single, fail) ==
    LET infosErr == FilterOut(NewAggregate(fe), o.IgnoreNotFound)
        errs == IF infosErr # NoError THEN <<infosErr>> ELSE <<>>
        asList == ~single \/ Len(items) > 1
        isList == asList \/ items[1].kind = "List"
        perr == FirstPrintErr(items)
        errs2 == IF perr # "" THEN Append(errs, Leaf(perr)) ELSE errs
        written == IF perr # "" THEN <<>>
                   ELSE <<Chunk(isList, [i \in 1..Len(items) |-> i])>>
        all == [i \in 1..Len(items) |-> i]
    IN  IF infosErr # NoError /\ single
        THEN [err |-> infosErr, out |-> <<>>, calls |-> <<>>]
        ELSE IF Len(items) = 0 /\ o.IgnoreNotFound
        THEN [err |-> Reduce(Flatten(NewAggregate(errs))), out |-> <<>>, calls |-> <<>>]
        ELSE IF ~asList /\ Len(items) = 0
        THEN [err |-> Leaf("panic: index out of range"), out |-> <<>>, calls |-> <<>>]
        ELSE IF isList /\ fail = "conversion"
        THEN [err |-> Leaf("conversion"), out |-> <<>>, calls |-> <<>>]
        ELSE [err |-> Reduce(Flatten(NewAggregate(errs2))), out |-> written,
              calls |-> <<all>>]

RunGeneric ==
    /\ rpc = "idle"
    /\ \E o \in RunOptionValues, single \in BOOLEAN, fail \in GenericFailures :
          /\ o.GenericPrinter
          /\ \E f \in GenericFetches(single) :
                LET g == printGeneric(o, f.items, f.fe, single, fail)
                IN  /\ Returns(o, f.fe, single, FALSE, f.items, g.err)
                    /\ outSink' = g.out
                    /\ printCalls' = g.calls
    /\ UNCHANGED <<resolveVars, watchVars, cliVars>>

RunNext ==
    \/ RunBuilderError
    \/ RunStart
    \/ RunItem
    \/ RunFinish
    \/ RunGeneric

----------------------------------------------------------------------------
\* GetOptions.watch.

\* one object of the watch: a fetched item or the object of an event. converts:
\* ConvertToVersion succeeds on it; perr: the error PrintObj returns on it
WObj(id, converts, perr) == [id |-> id, converts |-> converts, perr |-> perr, internal |-> FALSE]

WObjShapes == [converts : BOOLEAN, perr : {"", "e1"}]

\* the objects of a fetch, numbered in fetch order
Numbered(shapes) == [i \in 1..Len(shapes) |-> WObj(i, shapes[i].converts, shapes[i].perr)]

\* what r.Object() holds: a list of any length, or one object. The members
\* of a list are what meta.ExtractList gives; its error is discarded, and on
\* the unstructured lists of this builder it does not fail
WatchTargets(isList) ==
    IF isList THEN {Numbered(q) : q \in SeqsUpTo(WObjShapes, MaxItems)}
    ELSE {Numbered(<<q>>) : q \in WObjShapes}

\* the resource kinds (GroupVersionKind) of the infos of a fetch
Kinds == {"pods", "services"}

\* infos of r.Infos(), by kind: one info, or one per chunk of a list
InfoKinds == SeqsUpTo(Kinds, MaxItems) \ {<<>>}

UniqueGVKs_CountInfos(gvks) == Len(gvks)

\* uniqueGVKs: 1, plus one for every info whose kind is not that of infos[0]
UniqueGVKs(gvks) == 1 + Cardinality({i \in 1..Len(gvks) : gvks[i] # gvks[1]})

GVKError ==
    Leaf("watch is only supported on individual resources and resource collections")

\* resourceVersion of the fetched object or list
ResourceVersions == {"41", "42"}

Cursor_AlwaysZero(isList, objRV) == "0"

\* rv: "0", or for a list the list's resourceVersion
Cursor(isList, objRV) == IF isList THEN objRV ELSE "0"

\* the watch.Interface r.Watch returns (<<>>: none yet)
NoSub == <<>>

Subscription(cursor) == <<[cursor |-> cursor, stopped |-> FALSE]>>

\* w.Stop()
Stop(w) == IF w = NoSub THEN w ELSE <<[w[1] EXCEPT !.stopped = TRUE]>>

OnInterrupt_Nothing(w) == w

\* interrupt.New(nil, w.Stop): what the handler runs on a signal
OnInterrupt(w) == Stop(w)

\* r.Err and r.Infos return an error before the infos are seen
FetchFailures == {"builder", "infos"}

\* the calls after the uniqueGVKs test that return an error before anything
\* is rendered: PrinterForOptions, r.Object, and for a list the
\* MetadataAccessor's ResourceVersion
WatchFailures(isList) == {"printer", "object"} \cup (IF isList THEN {"rv"} ELSE {})

attemptToConvertToInternal_Never(obj) == obj

\* attemptToConvertToInternal: the internal object, or the original
attemptToConvertToInternal(obj) ==
    IF obj.converts THEN [obj EXCEPT !.internal = TRUE] ELSE obj

\* one PrintObj call of watch
Render(from, obj) == [from |-> from, id |-> obj.id, internal |-> obj.internal]

Suppressed_Never(isList, isFirst) == FALSE

\* "if !isList && first": the event the streaming callback drops
Suppressed(isList, isFirst) == ~isList /\ isFirst

WatchReturns(err) ==
    /\ wpc' = "returned"
    /\ wret' = err

\* objRV: the resourceVersion of the fetched object or list
WatchOpts(watchOnly, isList, rv, gvks, objRV) ==
    [WatchOnly |-> watchOnly, isList |-> isList, rv |-> rv, gvks |-> gvks, objRV |-> objRV]

\* an error return of watch before "print the current object"
WatchRejects(watchOnly, isList, gvks, err) ==
    /\ wopts' = WatchOpts(watchOnly, isList, "0", gvks, "")
    /\ WatchReturns(err)
    /\ UNCHANGED <<fetched, wix>>

\* watch up to "print the current object"
WatchStart ==
    /\ wpc = "idle"
    /\ \E watchOnly \in BOOLEAN, fetch \in FetchFailures \cup {"none"} :
          IF fetch # "none" THEN WatchRejects(watchOnly, FALSE, <<>>, Leaf(fetch))
          ELSE \E gvks \in InfoKinds :
                  IF Len(gvks) > 1 /\ UniqueGVKs(gvks) > 1
                  THEN WatchRejects(watchOnly, FALSE, gvks, GVKError)
                  ELSE \E isList \in (IF Len(gvks) > 1 THEN {TRUE} ELSE BOOLEAN) :
                       \E fail \in WatchFailures(isList) \cup {"none"} :
                          IF fail # "none"
                          THEN WatchRejects(watchOnly, isList, gvks, Leaf(fail))
                          ELSE \E objs \in WatchTargets(isList), objRV \in ResourceVersions :
                                 /\ wopts' = WatchOpts(watchOnly, isList,
                                                       Cursor(isList, objRV), gvks, objRV)
                                 /\ fetched' = objs
                                 /\ wpc' = IF watchOnly THEN "open" ELSE "snapshot"
                                 /\ wix' = IF watchOnly THEN wix ELSE 1
                                 /\ UNCHANGED wret
    /\ UNCHANGED <<first, renders, delivered, writer, wout, sub, untilErr, intr, inflight>>
    /\ UNCHANGED <<resolveVars, runVars, cliVars>>

\* one iteration of "for _, objToPrint := range objsToPrint"
WatchSnapshotItem ==
    /\ wpc = "snapshot"
    /\ wix <= Len(fetched)
    /\ LET obj == attemptToConvertToInternal(fetched[wix])
       IN  /\ renders' = Append(renders, Render("snapshot", obj))
           /\ IF obj.perr # ""
              THEN /\ WatchReturns(Leaf("unable to output the provided object"))
                   /\ UNCHANGED <<wix, writer>>
              ELSE /\ writer' = Append(writer, Render("snapshot", obj))
                   /\ wix' = wix + 1
                   /\ UNCHANGED <<wpc, wret>>
    /\ UNCHANGED <<wopts, fetched, first, delivered, wout, sub, untilErr, intr, inflight>>
    /\ UNCHANGED <<resolveVars, runVars, cliVars>>

\* a Flush that leaves the buffered output in the tab writer
Flush_Nothing(sink, buffer) == [sink |-> sink, buffer |-> buffer]

\* tabwriter.Writer.Flush: the buffered output goes to the sink
Flush(sink, buffer) == [sink |-> sink \o buffer, buffer |-> <<>>]

\* writer.Flush() after the snapshot loop
WatchFlush ==
    /\ wpc = "snapshot"
    /\ wix > Len(fetched)
    /\ wout' = Flush(wout, writer).sink
    /\ writer' = Flush(wout, writer).buffer
    /\ wpc' = "open"
    /\ UNCHANGED <<wopts, fetched, wix, first, renders, delivered, wret, sub, untilErr, intr,
                   inflight>>
    /\ UNCHANGED <<resolveVars, runVars, cliVars>>

\* r.Watch(rv) and "first := true"
WatchOpen ==
    /\ wpc = "open"
    /\ \E fails \in BOOLEAN :
          IF fails THEN WatchReturns(Leaf("watch")) /\ UNCHANGED <<first, sub>>
          ELSE /\ wpc' = "streaming"
               /\ first' = TRUE
               /\ sub' = Subscription(wopts.rv)
               /\ UNCHANGED wret
    /\ UNCHANGED <<wopts, fetched, wix, renders, delivered, writer, wout, untilErr, intr,
                   inflight>>
    /\ UNCHANGED <<resolveVars, runVars, cliVars>>

\* the callback of watch.Until on the next event of the channel: the event
\* is dropped, or handed to printer.PrintObj, which writes to options.Out
WatchEvent ==
    /\ wpc = "streaming"
    /\ inflight = <<>>
    /\ delivered < MaxEvents
    /\ delivered' = delivered + 1
    /\ IF Suppressed(wopts.isList, first)
       THEN /\ first' = FALSE
            /\ UNCHANGED <<renders, inflight>>
       ELSE \E shape \in WObjShapes :
               LET obj == attemptToConvertToInternal(
                              WObj(delivered + 1, shape.converts, shape.perr))
               IN  /\ renders' = Append(renders, Render("event", obj))
                   /\ inflight' = <<obj>>
                   /\ UNCHANGED first
    /\ UNCHANGED <<wpc, wopts, fetched, wix, writer, wout, wret, sub, untilErr, intr>>
    /\ UNCHANGED <<resolveVars, runVars, cliVars>>

\* PrintObj returns to the callback, before or after a signal: an error ends
\* watch.Until, which stops the watcher on its way out, and watch returns nil
\* whatever intr.Run returned
WatchPrinted ==
    /\ wpc \in {"streaming", "stopping"}
    /\ inflight # <<>>
    /\ inflight' = <<>>
    /\ IF inflight[1].perr # ""
       THEN /\ WatchReturns(NoError)
            /\ untilErr' = Leaf(inflight[1].perr)
            /\ sub' = Stop(sub)
            /\ UNCHANGED wout
       ELSE /\ wout' = Append(wout, Render("event", inflight[1]))
            /\ UNCHANGED <<wpc, wret, sub, untilErr>>
    /\ UNCHANGED <<wopts, fetched, wix, first, renders, delivered, writer, intr>>
    /\ UNCHANGED <<resolveVars, runVars, cliVars>>

\* the stream fails: the channel is closed, watch.Until returns ErrWatchClosed
WatchStop ==
    /\ wpc = "streaming"
    /\ inflight = <<>>
    /\ WatchReturns(NoError)
    /\ untilErr' = Leaf("watch closed before Until timeout")
    /\ sub' = Stop(sub)
    /\ UNCHANGED <<wopts, fetched, wix, first, renders, delivered, writer, wout, intr, inflight>>
    /\ UNCHANGED <<resolveVars, runVars, cliVars>>

\* a termination signal during intr.Run: the handler, on its own goroutine,
\* runs w.Stop, whatever the callback is doing
WatchInterrupt ==
    /\ wpc = "streaming"
    /\ intr' = TRUE
    /\ sub' = OnInterrupt(sub)
    /\ wpc' = "stopping"
    /\ UNCHANGED <<wopts, fetched, wix, first, renders, delivered, writer, wout, wret, untilErr,
                   inflight>>
    /\ UNCHANGED <<resolveVars, runVars, cliVars>>

\* after w.Stop: the handler ends the process (its final function is nil),
\* or watch.Until sees the closed channel first and watch returns
WatchUnwind ==
    /\ wpc = "stopping"
    /\ \E exits \in (IF inflight = <<>> THEN BOOLEAN ELSE {TRUE}) :
          IF exits THEN wpc' = "exited" /\ UNCHANGED <<wret, untilErr, sub>>
          ELSE /\ WatchReturns(NoError)
               /\ untilErr' = Leaf("watch closed before Until timeout")
               /\ sub' = Stop(sub)
    /\ UNCHANGED <<wopts, fetched, wix, first, renders, delivered, writer, wout, intr, inflight>>
    /\ UNCHANGED <<resolveVars, runVars, cliVars>>

WatchNext ==
    \/ WatchStart
    \/ WatchSnapshotItem
    \/ WatchFlush
    \/ WatchOpen
    \/ WatchEvent
    \/ WatchPrinted
    \/ WatchStop
    \/ WatchInterrupt
    \/ WatchUnwind

----------------------------------------------------------------------------
\* The command: the Run closure of NewCmdGet calls Complete, Validate and
\* Run, each under cmdutil.CheckErr.

NoFlags ==
    [format |-> <<>>, template |-> NilPtr, mode |-> "get", raw |-> FALSE,
     args |-> FALSE, showLabels |-> FALSE]

\* -o, --template, --watch / --watch-only, --raw, resource arguments given,
\* --show-labels
FlagValues ==
    [format : FormatStrings, template : {NilPtr, Ptr(<<"tA">>), Ptr(<<"tBad">>)},
     mode : {"get", "watch", "watch-only"}, raw : BOOLEAN, args : BOOLEAN,
     showLabels : BOOLEAN]

\* options.HumanPrintFlags as Complete leaves it
CmdHumanFlags(c) ==
    [NoHeaders |-> Ptr(FALSE), Wide |-> NilPtr, WithNamespace |-> Ptr(FALSE),
     ShowLabels |-> Ptr(c.showLabels), AbsoluteTimestamps |-> Ptr(c.mode = "watch"),
     Kind |-> <<>>, ColumnLabels |-> NilPtr]

\* GetOptions.Complete: the error it returns
Complete(c) ==
    IF c.raw
    THEN (IF c.args THEN Errorf("arguments may not be passed when --raw is specified", <<>>)
          ELSE ErrNone)
    ELSE IF c.mode = "get" /\ ~c.args
    THEN Errorf("Required resource not specified.", <<>>)
    ELSE Complete_ToPrinter(CmdHumanFlags(c), c.template, c.format, TRUE, TRUE).err

\* GetOptions.Validate: the error it returns
Validate(c) ==
    IF c.raw /\ c.mode # "get"
    THEN Errorf("--raw may not be specified with other flags that filter the server request or alter the output", <<>>)
    ELSE IF c.raw /\ Len(c.format) > 0
    THEN Errorf("--raw and --output are mutually exclusive", <<>>)
    ELSE IF c.showLabels /\ c.format # <<>> /\ c.format # <<"wide">>
    THEN Errorf("--show-labels option cannot be used with this printer", c.format)
    ELSE ErrNone

\* cmdutil.CheckErr: a non-nil error ends the process
Fatal_Never(err) == FALSE

Fatal(err) == err # ErrNone

CmdStep(err, next) ==
    /\ cpc' = IF Fatal(err) THEN "fatal" ELSE next
    /\ cerr' = err

CmdComplete ==
    /\ cpc = "new"
    /\ \E c \in FlagValues :
          /\ cflags' = c
          /\ CmdStep(Complete(c), "completed")
    /\ UNCHANGED fetches
    /\ UNCHANGED <<resolveVars, runVars, watchVars, hdrVars, nsVars>>

CmdValidate ==
    /\ cpc = "completed"
    /\ CmdStep(Validate(cflags), "validated")
    /\ UNCHANGED <<cflags, fetches>>
    /\ UNCHANGED <<resolveVars, runVars, watchVars, hdrVars, nsVars>>

\* GetOptions.Run: raw, watch and the one-shot session each start with a
\* request to the server; watch resolves its printer after the fetch
CmdRun ==
    /\ cpc = "validated"
    /\ fetches' = fetches + 1
    /\ \E failure \in {ErrNone, Errorf("the server could not find the requested resource", <<>>)} :
          IF failure = ErrNone /\ ~cflags.raw /\ cflags.mode # "get"
          THEN CmdStep(PrinterForOptions(cflags.template, cflags.format).err, "ran")
          ELSE CmdStep(failure, "ran")
    /\ UNCHANGED cflags
    /\ UNCHANGED <<resolveVars, runVars, watchVars, hdrVars, nsVars>>

CmdNext ==
    \/ CmdComplete
    \/ CmdValidate
    \/ CmdRun

----------------------------------------------------------------------------
\* options.PrintObj, the closure Complete installs, on the table printer.

HKinds == {"pods", "services", "nodes"}

\* printers.HumanReadablePrinter: whether it prints headers, the kind it
\* printed last, the kind it prefixes names with
NewTablePrinter(noHeaders) == [headers |-> ~noHeaders, lastType |-> "", withKind |-> ""]

EnsurePrintWithKind(p, kind) == [p EXCEPT !.withKind = kind]

\* kubectl.ResourceShortFormFor
ResourceShortFormFor(resource) ==
    IF resource = "pods" THEN [alias |-> "po", ok |-> TRUE]
    ELSE IF resource = "services" THEN [alias |-> "svc", ok |-> TRUE]
    ELSE [alias |-> "", ok |-> FALSE]

Line(t, kind, name) == [t |-> t, kind |-> kind, name |-> name]

\* HumanReadablePrinter.PrintObj: the header when the kind differs from the
\* last one printed, then the row
HumanPrintObj(p, kind) ==
    [printer |-> [p EXCEPT !.lastType = kind],
     lines |-> (IF p.headers /\ p.lastType # kind THEN <<Line("header", kind, "")>> ELSE <<>>)
                  \o <<Line("row", kind, p.withKind)>>,
     panics |-> FALSE]

\* a closure that builds its printer anew for every object
Options_PrintObj_NewPrinter(p, showKind, kind, mapped) ==
    HumanPrintObj([p EXCEPT !.lastType = ""], kind)

\* options.PrintObj(obj, info, out) with the captured printer p; mapped:
\* info.Mapping is not nil
Options_PrintObj(p, showKind, kind, mapped) ==
    IF showKind /\ ~mapped
    THEN [printer |-> p, lines |-> <<>>, panics |-> TRUE]
    ELSE IF showKind
    THEN HumanPrintObj(EnsurePrintWithKind(p, IF ResourceShortFormFor(kind).ok
                                              THEN ResourceShortFormFor(kind).alias
                                              ELSE kind),
                       kind)
    ELSE HumanPrintObj(p, kind)

\* Complete builds the printer once and installs the closure
HdrComplete ==
    /\ hpc = "new"
    /\ \E noHeaders \in BOOLEAN, showKind \in BOOLEAN :
          /\ hopts' = [NoHeaders |-> noHeaders, ShowKind |-> showKind]
          /\ hprinter' = NewTablePrinter(noHeaders)
    /\ hpc' = "ready"
    /\ UNCHANGED <<hstream, hout>>
    /\ UNCHANGED <<resolveVars, runVars, watchVars, cmdVars, nsVars>>

\* one call of the closure, from the render loop or from the watch
HdrPrintObj ==
    /\ hpc = "ready"
    /\ Len(hstream) < MaxStream
    /\ \E kind \in HKinds, mapped \in BOOLEAN :
          LET r == Options_PrintObj(hprinter, hopts.ShowKind, kind, mapped)
          IN  IF r.panics
              THEN /\ hpc' = "panicked"
                   /\ UNCHANGED <<hprinter, hstream, hout>>
              ELSE /\ hprinter' = r.printer
                   /\ hstream' = Append(hstream, kind)
                   /\ hout' = hout \o r.lines
                   /\ UNCHANGED hpc
    /\ UNCHANGED hopts
    /\ UNCHANGED <<resolveVars, runVars, watchVars, cmdVars, nsVars>>

HdrNext ==
    \/ HdrComplete
    \/ HdrPrintObj

----------------------------------------------------------------------------
\* kubectl ns: NamespaceOptions.setNamespace.

NoNsFlags == [newContextName |-> <<>>, newClusterValue |-> <<>>, newNamespace |-> <<>>]

\* --context, --cluster and the namespace given by --namespace or as argument
NsFlagValues ==
    [newContextName : {<<>>, <<"c1">>, <<"c3">>},
     newClusterValue : {<<>>, <<"k1">>, <<"k2">>},
     newNamespace : {<<>>, <<"dev">>, <<"prod">>}]

\* api.Context
Contexts ==
    [Namespace : {<<"dev">>, <<"prod">>}, Cluster : {<<"k1">>, <<"k2">>},
     AuthInfo : {<<>>, <<"u1">>, <<"u2", "/", "x">>}]

ContextNames == {<<"c1">>, <<"dev", "/", "k1", "/", "u1">>}

EmptyConfig == [Contexts |-> [n \in {} |-> <<>>], CurrentContext |-> <<>>]

\* api.Config: the contexts by name and the name of the current one, which
\* need not be among them
Configs ==
    {[Contexts |-> m, CurrentContext |-> cur]
        : m \in UNION {[names -> Contexts] : names \in SUBSET ContextNames},
          cur \in ContextNames \cup {<<>>, <<"gone">>}}

errNoContext == "no context is currently set"

\* strings.Split(s, "/")[0]
RECURSIVE BeforeSlash(_)
BeforeSlash(s) ==
    IF s = <<>> \/ Head(s) = "/" THEN <<>> ELSE <<Head(s)>> \o BeforeSlash(Tail(s))

\* NamespaceOptions.isUsingRequestedNamespace
isUsingRequestedNamespace(o, cfg, newNamespace) ==
    /\ cfg.CurrentContext \in DOMAIN cfg.Contexts
    /\ cfg.Contexts[cfg.CurrentContext].Namespace = newNamespace
    /\ Len(o.newContextName) > 0 => cfg.CurrentContext = o.newContextName
    /\ Len(o.newClusterValue) > 0 =>
          cfg.Contexts[cfg.CurrentContext].Cluster = o.newClusterValue

\* a context the loop of setNamespace takes for an existing match
Qualifies_AnyAuthInfo(c, newNamespace, cluster, authInfo) ==
    c.Namespace = newNamespace /\ c.Cluster = cluster

Qualifies(c, newNamespace, cluster, authInfo) ==
    c.Namespace = newNamespace /\ c.Cluster = cluster /\ c.AuthInfo = authInfo

\* the name setNamespace gives the context it creates
NewContextName(o, newNamespace, cluster, authInfo) ==
    IF Len(o.newContextName) > 0 THEN o.newContextName
    ELSE newNamespace
           \o (IF Len(cluster) > 0 THEN <<"/">> \o cluster ELSE <<>>)
           \o (IF Len(authInfo) > 0 THEN <<"/">> \o BeforeSlash(authInfo) ELSE <<>>)

Outcome(cfg, file, out, err) == [config |-> cfg, file |-> file, out |-> out, err |-> err]

\* o.rawConfig.CurrentContext = name, then clientcmd.ModifyConfig and the
\* message
Switch(cfg, file, name, newNamespace, modifyFails) ==
    LET next == [cfg EXCEPT !.CurrentContext = name]
    IN  IF modifyFails THEN Outcome(next, file, <<>>, "modify config")
        ELSE Outcome(next, next, <<<<"namespace changed to", newNamespace>>>>, "")

\* NamespaceOptions.setNamespace: its possible outcomes (the loop ranges over
\* a map, in any order)
setNamespace(o, cfg, file, newNamespace, modifyFails) ==
    IF Len(newNamespace) = 0
    THEN {Outcome(cfg, file, <<>>, "a non-empty namespace must be provided")}
    ELSE IF cfg.CurrentContext \notin DOMAIN cfg.Contexts
    THEN {Outcome(cfg, file, <<>>, errNoContext)}
    ELSE IF isUsingRequestedNamespace(o, cfg, newNamespace)
    THEN {Outcome(cfg, file, <<<<"already using namespace", newNamespace>>>>, "")}
    ELSE LET existingCtx == cfg.Contexts[cfg.CurrentContext]
             existingClusterName ==
                 IF Len(o.newClusterValue) = 0 THEN existingCtx.Cluster
                 ELSE o.newClusterValue
             found ==
                 IF Len(o.newContextName) = 0
                 THEN {n \in DOMAIN cfg.Contexts :
                          /\ Len(n) > 0
                          /\ Qualifies(cfg.Contexts[n], newNamespace, existingClusterName,
                                       existingCtx.AuthInfo)}
                 ELSE {}
             newCtx == [Namespace |-> newNamespace, Cluster |-> existingClusterName,
                        AuthInfo |-> existingCtx.AuthInfo]
             newCtxName == NewContextName(o, newNamespace, existingClusterName,
                                          existingCtx.AuthInfo)
             added == [cfg EXCEPT !.Contexts =
                          [n \in DOMAIN cfg.Contexts \cup {newCtxName} |->
                              IF n = newCtxName THEN newCtx ELSE cfg.Contexts[n]]]
         IN  IF found # {}
             THEN {Switch(cfg, file, n, newNamespace, modifyFails) : n \in found}
             ELSE {Switch(added, file, newCtxName, newNamespace, modifyFails)}

\* NamespaceOptions.Run without a new namespace and without --list
PrintNamespace(cfg, file) ==
    IF cfg.CurrentContext \notin DOMAIN cfg.Contexts
    THEN Outcome(cfg, file, <<>>, "unable to find information for the current namespace")
    ELSE Outcome(cfg, file, <<<<"namespace", cfg.Contexts[cfg.CurrentContext].Namespace>>>>, "")

\* NamespaceOptions.Complete, then Validate
NsComplete ==
    /\ npc = "new"
    /\ \E cfg \in Configs, o \in NsFlagValues :
          /\ rawConfig' = cfg
          /\ kubeconfig' = cfg
          /\ nopts' = o
          /\ IF Len(cfg.CurrentContext) = 0
             THEN npc' = "done" /\ nret' = errNoContext
             ELSE npc' = "validated" /\ nret' = ""
    /\ UNCHANGED nout
    /\ UNCHANGED <<resolveVars, runVars, watchVars, cmdVars, hdrVars>>

\* NamespaceOptions.Run
NsRun ==
    /\ npc = "validated"
    /\ \E modifyFails \in BOOLEAN :
          \E r \in (IF Len(nopts.newNamespace) > 0
                    THEN setNamespace(nopts, rawConfig, kubeconfig, nopts.newNamespace,
                                      modifyFails)
                    ELSE {PrintNamespace(rawConfig, kubeconfig)}) :
             /\ rawConfig' = r.config
             /\ kubeconfig' = r.file
             /\ nout' = nout \o r.out
             /\ nret' = r.err
    /\ npc' = "done"
    /\ UNCHANGED nopts
    /\ UNCHANGED <<resolveVars, runVars, watchVars, cmdVars, hdrVars>>

NsNext ==
    \/ NsComplete
    \/ NsRun

----------------------------------------------------------------------------
\* Specifications.

Init ==
    /\ entry = "none"
    /\ inFormat = <<>>
    /\ inTemplate = NilPtr
    /\ inArgs = NoArgs
    /\ res = Ret(NilPrinter, FALSE, ErrNone)
    /\ TemplateArgument = Ptr(<<>>)
    /\ OutputFormat = <<>>
    /\ rpc = "idle"
    /\ ropts = RunOpts([IgnoreNotFound |-> FALSE, GenericPrinter |-> FALSE,
                        ServerPrint |-> FALSE, SortBy |-> FALSE], <<>>, FALSE, FALSE)
    /\ infos = <<>>
    /\ sorter = <<>>
    /\ ix = 0
    /\ allErrs = <<>>
    /\ nonEmptyObjCount = 0
    /\ printCalls = <<>>
    /\ buf = <<>>
    /\ outSink = <<>>
    /\ errOut = <<>>
    /\ flushes = 0
    /\ ret = NoError
    /\ wpc = "idle"
    /\ wopts = WatchOpts(FALSE, FALSE, "0", <<>>, "")
    /\ fetched = <<>>
    /\ wix = 0
    /\ first = FALSE
    /\ renders = <<>>
    /\ delivered = 0
    /\ writer = <<>>
    /\ wout = <<>>
    /\ wret = NoError
    /\ sub = NoSub
    /\ untilErr = NoError
    /\ intr = FALSE
    /\ inflight = <<>>
    /\ cpc = "new"
    /\ cflags = NoFlags
    /\ cerr = ErrNone
    /\ fetches = 0
    /\ hpc = "new"
    /\ hopts = [NoHeaders |-> FALSE, ShowKind |-> FALSE]
    /\ hprinter = NewTablePrinter(FALSE)
    /\ hstream = <<>>
    /\ hout = <<>>
    /\ npc = "new"
    /\ nopts = NoNsFlags
    /\ rawConfig = EmptyConfig
    /\ kubeconfig = EmptyConfig
    /\ nout = <<>>
    /\ nret = ""

\* the format resolution entry points
SpecResolve == Init /\ [][ResolveNext]_vars

\* kubectl get: Complete, Validate, Run
SpecCmd == Init /\ [][CmdNext]_vars

\* a stream of objects through options.PrintObj
SpecHeaders == Init /\ [][HdrNext]_vars

\* kubectl ns
SpecNs == Init /\ [][NsNext]_vars

\* kubectl get without --watch
SpecRun == Init /\ [][RunNext]_vars

\* kubectl get --watch / --watch-only
SpecWatch == Init /\ [][WatchNext]_vars

\* the same, where the process goes on after the interrupt handler has run
SpecWatchLive == Init /\ [][WatchNext]_vars /\ WF_vars(WatchUnwind)

----------------------------------------------------------------------------
\* Claims about format resolution.

\* the renderer kind the CLI documentation gives a format string ("none":
\* not a documented format)
DocumentedKind(format) ==
    CASE format = <<"json">> -> "Json"
      [] format = <<"yaml">> -> "Yaml"
      [] format = <<"name">> -> "Name"
      [] format = <<"wide">> \/ format = <<>> -> "HumanTable"
      [] HasPrefix(format, <<"go-template", EQ>>) -> "GoTemplate"
      [] HasPrefix(format, <<"go-template-file", EQ>>) -> "GoTemplate"
      [] HasPrefix(format, <<"template", EQ>>) -> "GoTemplate"
      [] HasPrefix(format, <<"jsonpath", EQ>>) -> "JSONPath"
      [] HasPrefix(format, <<"jsonpath-file", EQ>>) -> "JSONPath"
      [] HasPrefix(format, <<"custom-columns", EQ>>) -> "CustomColumns"
      [] HasPrefix(format, <<"custom-columns-file", EQ>>) -> "CustomColumns"
      [] OTHER -> "none"

\* C1: every documented format string resolves to a renderer of the
\* documented kind, and a string outside the documented set is rejected with
\* a "not recognized" error. Stated of the two resolution functions the claim
\* rests on: a printer TemplatePrintFlags.ToPrinter builds for a documented
\* <kind>=<rest> format has the documented kind; GetStandardPrinter gives the
\* documented kind for the bare documented formats and rejects "templatefile",
\* "JSON" and "foo".
C1_DocumentedKinds ==
    /\ (entry = "TemplatePrintFlags" /\ Len(inFormat) > 1 /\ res.matched /\ res.err = ErrNone)
          => res.printer.kind = DocumentedKind(inFormat)
    /\ (entry = "GetStandardPrinter"
          /\ inFormat \in {<<"json">>, <<"yaml">>, <<"name">>, <<"wide">>, <<>>})
          => res.printer.kind = DocumentedKind(inFormat)
    /\ (entry = "GetStandardPrinter"
          /\ inFormat \in {<<"templatefile">>, <<"JSON">>, <<"foo">>})
          => res.err.msg = "output format not recognized"

\* the format types GetStandardPrinter has a case for
StandardTypes ==
    {<<"json">>, <<"yaml">>, <<"name">>, <<"custom-columns">>, <<"custom-columns-file">>,
     <<"wide">>, <<>>}

FlagTypes ==
    {<<"templatefile">>, <<"go-template-file">>, <<"jsonpath-file">>, <<"template">>,
     <<"go-template">>, <<"jsonpath">>}

NoBuilderMatched(builders) == \A i \in 1..Len(builders) : ~builders[i].matched

FirstMatched(builders) ==
    IF NoBuilderMatched(builders) THEN 0
    ELSE CHOOSE i \in 1..Len(builders) :
            /\ builders[i].matched
            /\ \A j \in 1..(i - 1) : ~builders[j].matched

\* C3: builders are tried in their declared order and the search stops at
\* the first one that reports matched; its construction error, if any, is the
\* result, and nothing after it is consulted; a builder that reports
\* not-matched does not end the search. In Complete the general resolver is
\* consulted exactly when the table flags report not-matched.
C3_FirstMatchWins ==
    /\ entry = "TemplatePrintFlagsBuilders" =>
         LET b == inArgs.builders
             k == FirstMatched(b)
         IN  IF k = 0
             THEN ~res.matched /\ res.consulted = Len(b) /\ res.printer = NilPrinter
             ELSE /\ res.matched
                  /\ res.consulted = k
                  /\ b[k].fails => (res.err # ErrNone /\ res.printer = NilPrinter)
                  /\ ~b[k].fails => (res.err = ErrNone /\ res.printer # NilPrinter)
    /\ entry = "Complete" =>
         LET table == inFormat \in {<<>>, <<"wide">>} /\ inArgs.encoder /\ inArgs.decoder
         IN  /\ table => /\ res.consulted = 1
                          /\ res.err = ErrNone
                          /\ res.printer.kind = "HumanTable"
             /\ ~table => res.consulted = 2

C3_Witness ==
    /\ entry = "TemplatePrintFlagsBuilders"
    /\ Len(inArgs.builders) = 3
    /\ ~inArgs.builders[1].matched
    /\ inArgs.builders[2].matched /\ inArgs.builders[2].fails
    /\ inArgs.builders[3].matched /\ ~inArgs.builders[3].fails
    /\ res.consulted = 2
    /\ res.err = BuilderErr(2)

\* C4: "" and "wide" both give the table renderer, and wide output is on
\* exactly when the format is "wide".
C4_WideFollowsFormat ==
    /\ (entry = "HumanPrintFlags" /\ res.matched)
          => /\ res.printer.kind = "HumanTable"
             /\ ("wide" \in res.printer.ensure) <=> (inFormat = <<"wide">>)
    /\ (entry = "GetStandardPrinter" /\ inFormat \in {<<>>, <<"wide">>})
          => /\ res.printer.kind = "HumanTable"
             /\ ("wide" \in res.printer.ensure) <=> (inFormat = <<"wide">>)

\* a format string <kind>=<rest> whose rest compiles
IsKindRest(format, kinds) ==
    /\ Len(format) >= 2
    /\ format[1] \in kinds
    /\ format[2] = EQ
    /\ ~Malformed(SliceFrom(format, 2))

\* C5: for <kind>=<rest> the resolved kind is <kind> and the renderer is
\* built from exactly <rest>, whatever the separately supplied template
\* argument is (empty and unset included).
C5_RestIsArgument ==
    /\ (entry = "GoTemplatePrintFlags" /\ IsKindRest(inFormat, GoTemplateFormats))
          => /\ res.matched
             /\ res.printer.kind = "GoTemplate"
             /\ res.printer.arg = SliceFrom(inFormat, 2)
    /\ (entry = "JSONPathPrintFlags" /\ IsKindRest(inFormat, JSONPathFormats))
          => /\ res.matched
             /\ res.printer.kind = "JSONPath"
             /\ res.printer.arg = SliceFrom(inFormat, 2)
    /\ (entry = "TemplatePrintFlagsBuilders"
          /\ IsKindRest(inFormat, {ChainPrefixes[i] : i \in 1..Len(ChainPrefixes)}))
          => /\ OutputFormat = <<inFormat[1]>>
             /\ TemplateArgument = Ptr(SliceFrom(inFormat, 2))

----------------------------------------------------------------------------
\* Claims about the one-shot print session.

\* the run went through the render loop of Run and returned
LoopReturned == rpc = "done" /\ ix > 0

ZeroRowTable(info) == info.isTable /\ info.rows = 0

\* no item of the result reaches PrintObj
NothingToPrint == \A i \in 1..Len(infos) : ZeroRowTable(infos[i])

NoResourcesFound == <<"No resources found.">>

\* C6 as stated: at the end of a one-shot session "No resources found." is
\* emitted if nothing was printed and ignore-not-found was not requested, for
\* any mix of zero-row tables, non-empty items and PrintObj failures.
C6_EmittedWhenNothingPrinted ==
    LoopReturned /\ outSink = <<>> /\ ~ropts.IgnoreNotFound => errOut = NoResourcesFound

\* C6, amended: the line is emitted exactly when no item reached PrintObj
\* (the result is empty or holds only zero-row tables) and ignore-not-found
\* was not requested; it is never emitted together with printed output; an
\* empty result without ignore-not-found emits exactly that line and
\* returns success.
C6_Diagnostic ==
    LoopReturned =>
        /\ errOut = (IF NothingToPrint /\ ~ropts.IgnoreNotFound THEN NoResourcesFound ELSE <<>>)
        /\ (outSink # <<>> => errOut = <<>>)
        /\ (infos = <<>> /\ ~ropts.IgnoreNotFound
               => errOut = NoResourcesFound /\ outSink = <<>> /\ ret = NoError)

\* a zero-row table next to a printed item: no diagnostic
C6_Witness ==
    /\ LoopReturned
    /\ ~ropts.IgnoreNotFound
    /\ \E i, j \in 1..Len(infos) : ZeroRowTable(infos[i]) /\ ~ZeroRowTable(infos[j])
    /\ outSink # <<>>
    /\ errOut = <<>>

\* display order of the fetch positions
DisplayOrder == [i \in 1..Len(infos) |-> IF sorter # <<>> THEN sorter[i] ELSE i]

\* the PrintObj calls the loop owes after its first n iterations
RECURSIVE ExpectedCalls(_)
ExpectedCalls(n) ==
    IF n = 0 THEN <<>>
    ELSE ExpectedCalls(n - 1)
           \o (IF ZeroRowTable(infos[DisplayOrder[n]]) THEN <<>> ELSE <<<<DisplayOrder[n]>>>>)

\* the errors of the failed calls among calls, in call order
RECURSIVE FailedCalls(_)
FailedCalls(calls) ==
    IF calls = <<>> THEN <<>>
    ELSE (IF FirstPrintErr([k \in 1..Len(Head(calls)) |-> infos[Head(calls)[k]]]) = "" THEN <<>>
          ELSE <<Leaf(FirstPrintErr([k \in 1..Len(Head(calls)) |-> infos[Head(calls)[k]]]))>>)
           \o FailedCalls(Tail(calls))

\* C7: a PrintObj failure never stops the loop: every item that is not a
\* zero-row table gets exactly one PrintObj call, in display order, whatever
\* failed before it, and the returned aggregate holds exactly the errors of
\* the failed calls (none: success).
C7_EveryItemPrintedOnce ==
    /\ (rpc = "loop" => printCalls = ExpectedCalls(ix - 1))
    /\ (LoopReturned =>
           /\ printCalls = ExpectedCalls(Len(infos))
           /\ ret = NewAggregate(FailedCalls(printCalls))
           /\ (ret = NoError <=> FailedCalls(printCalls) = <<>>))

\* the first item fails, two later ones are still handed to PrintObj
C7_Witness ==
    /\ LoopReturned
    /\ Len(infos) = 3
    /\ infos[DisplayOrder[1]].perr = "e1"
    /\ infos[DisplayOrder[3]].perr = "e2"
    /\ Len(printCalls) = 3
    /\ ret = [agg |-> TRUE, msg |-> "", errs |-> <<Leaf("e1"), Leaf("e2")>>]

OnlyNotFound == ropts.fetchErrs = <<Leaf("notfound")>> /\ ~ropts.builderErr

OtherFetchError ==
    \/ ropts.builderErr
    \/ \E i \in 1..Len(ropts.fetchErrs) : ropts.fetchErrs[i].msg = "other"

RenderError == FailedCalls(printCalls) # <<>>

\* C8 as stated: a fetch whose only failure is "not found", with
\* ignore-not-found set, writes nothing to either sink and returns success.
C8_NotFoundIgnoredIsSilent ==
    rpc = "done" /\ OnlyNotFound /\ ropts.IgnoreNotFound
        => outSink = <<>> /\ errOut = <<>> /\ ret = NoError

\* C8, amended: a fetch whose only failure is "not found" and that fetched no
\* item, with ignore-not-found set, writes nothing to either sink and returns
\* success; the items fetched beside a not-found one are printed as usual. Any
\* other fetch error and any render error makes the run return a non-nil
\* error, on the table path and on the generic path.
C8_ExitBehavior ==
    rpc = "done" =>
        /\ (OnlyNotFound /\ ropts.IgnoreNotFound /\ infos = <<>>
               => outSink = <<>> /\ errOut = <<>> /\ ret = NoError)
        /\ (OtherFetchError => ret # NoError)
        /\ (RenderError => ret # NoError)

\* the silent success, here of the generic path with a single item implied
C8_Witness ==
    /\ rpc = "done"
    /\ OnlyNotFound /\ ropts.IgnoreNotFound /\ infos = <<>>
    /\ ropts.singleItemImplied
    /\ ropts.GenericPrinter
    /\ ret = NoError

----------------------------------------------------------------------------
\* Claims about the watch loop.

\* the watch reached STREAMING
Streamed == wpc = "streaming" \/ delivered > 0

RendersFrom(from) == SelectSeq(renders, LAMBDA r : r.from = from)

\* the events that are not rendered: the first one of a single-object watch
Dropped == IF wopts.isList \/ delivered = 0 THEN 0 ELSE 1

\* C9 as stated: a single-object watch with n >= 1 events performs
\* 1 + (n - 1) renders, a list watch with k fetched items and n events k + n.
C9_RenderCount ==
    Streamed /\ delivered >= 1
        => Len(renders) = (IF wopts.isList THEN Len(fetched) + delivered
                           ELSE 1 + (delivered - 1))

\* C9, amended: in STREAMING exactly the first event of a single-object watch
\* is not rendered and no event of a list watch is; every other event the
\* loop receives is rendered once, in delivery order. Without watch-only a
\* single-object watch with n >= 1 events performs 1 + (n - 1) renders and a
\* list watch of k items k + n; with watch-only the snapshot is not rendered
\* and the counts are n - 1 and n.
C9_FirstEventSuppressed ==
    Streamed =>
        /\ RendersFrom("event")
             = [i \in 1..(delivered - Dropped) |->
                   [from |-> "event", id |-> i + Dropped,
                    internal |-> RendersFrom("event")[i].internal]]
        /\ Len(renders) = (IF wopts.WatchOnly THEN 0 ELSE Len(fetched)) + delivered - Dropped

\* the scenario of the specification: single object, three events, 1 + 2 renders
C9_Witness ==
    /\ Streamed
    /\ ~wopts.isList /\ ~wopts.WatchOnly
    /\ delivered = 3
    /\ Len(renders) = 3
    /\ RendersFrom("event")[1].id = 2

\* C10: without watch-only every fetched item (the object, or each member of
\* the list) has been rendered exactly once, in fetch order, converted when
\* the conversion succeeds and as fetched when it fails, before any streamed
\* event is rendered; with watch-only no fetched item is rendered.
C10_SnapshotBeforeEvents ==
    /\ \A i, j \in 1..Len(renders) :
          i < j => ~(renders[i].from = "event" /\ renders[j].from = "snapshot")
    /\ (wopts.WatchOnly => RendersFrom("snapshot") = <<>>)
    /\ \A i \in 1..Len(RendersFrom("snapshot")) :
          RendersFrom("snapshot")[i]
            = [from |-> "snapshot", id |-> i, internal |-> fetched[i].converts]
    /\ (Streamed /\ ~wopts.WatchOnly => Len(RendersFrom("snapshot")) = Len(fetched))

\* a list of a convertible and an inconvertible item, then a rendered event
C10_Witness ==
    /\ Streamed
    /\ ~wopts.WatchOnly /\ wopts.isList
    /\ Len(fetched) = 2
    /\ fetched[1].converts /\ ~fetched[2].converts
    /\ Len(renders) = 3
    /\ renders[1].internal /\ ~renders[2].internal
    /\ renders[3].from = "event"

\* the kinds among the infos the fetch returned
DistinctKinds == {wopts.gvks[i] : i \in 1..Len(wopts.gvks)}

\* C11: the watch is rejected with the validation error, before anything is
\* rendered and before a subscription is opened, exactly when the fetched infos
\* hold more than one distinct kind; any number of infos of one kind (chunks)
\* is accepted.
C11_MixedKindsRejected ==
    /\ Cardinality(DistinctKinds) > 1
          => /\ wpc = "returned" /\ wret = GVKError
             /\ renders = <<>> /\ wout = <<>> /\ writer = <<>>
             /\ sub = NoSub
    /\ Cardinality(DistinctKinds) <= 1 => wret # GVKError

\* three infos, the third of another kind: rejected
C11_Witness ==
    /\ Len(wopts.gvks) = 3
    /\ wopts.gvks[1] = wopts.gvks[2] /\ wopts.gvks[3] # wopts.gvks[1]
    /\ wret = GVKError

\* C12: an error that ends the STREAMING loop (the stream failed, or a
\* streamed event failed to render) is surfaced: watch returns a non-nil error.
C12_StreamErrorSurfaced ==
    wpc = "returned" /\ untilErr # NoError => wret # NoError

IsPrefix(s, t) == Len(s) <= Len(t) /\ SubSeq(t, 1, Len(s)) = s

\* C13: when an interrupt arrives during STREAMING the subscription is
\* stopped before watch returns, no event is handed to PrintObj after the
\* stop (at most the call that was running at the stop still writes its
\* output), the loop terminates, and the output written before the interrupt
\* stays in the sink as it was.
C13_InterruptUnwinds ==
    /\ [](intr => sub # NoSub /\ sub[1].stopped)
    /\ [][intr' => renders' = renders /\ delivered' = delivered]_vars
    /\ [][intr /\ wout' # wout =>
             inflight # <<>> /\ wout' = Append(wout, Render("event", inflight[1]))]_vars
    /\ [][IsPrefix(wout, wout')]_vars
    /\ (intr ~> wpc \in {"returned", "exited"})

\* interrupted after two events had been written; watch returned
C13_Witness ==
    /\ intr
    /\ wpc = "returned"
    /\ sub[1].stopped
    /\ delivered = 2
    /\ Len(wout) >= 2

\* C20: the subscription is opened at cursor "0" exactly when the target is a
\* single object and at the list's own resourceVersion exactly when it is a
\* list; the cursor is fixed before the snapshot is rendered and does not
\* change afterwards.
C20_CursorChosenOnce ==
    /\ [](sub # NoSub =>
             sub[1].cursor = (IF wopts.isList THEN wopts.objRV ELSE "0"))
    /\ [](wpc \in {"snapshot", "open"} =>
             wopts.rv = (IF wopts.isList THEN wopts.objRV ELSE "0"))
    /\ [][wpc # "idle" => wopts'.rv = wopts.rv]_vars
    /\ [][sub # NoSub => sub' # NoSub /\ sub'[1].cursor = sub[1].cursor]_vars

\* a list watch opened at the list's resourceVersion after its snapshot
C20_Witness ==
    /\ sub # NoSub
    /\ wopts.isList /\ ~wopts.WatchOnly
    /\ wopts.objRV = "42"
    /\ sub[1].cursor = "42"
    /\ Len(renders) >= 1

----------------------------------------------------------------------------
\* C15: the error a one-shot invocation returns is flattened (no member of
\* it is itself an aggregate) and deduplicated (no error occurs in it
\* twice), after the table loop of Run and after printGeneric alike.
Nested(err) == err.agg /\ \E i \in 1..Len(err.errs) : err.errs[i].agg

Duplicated(err) ==
    err.agg /\ \E i, j \in 1..Len(err.errs) : i < j /\ err.errs[i] = err.errs[j]

C15_FlattenedDeduplicated == rpc = "done" => ~Nested(ret) /\ ~Duplicated(ret)

----------------------------------------------------------------------------
\* C16: with a sort field the display order of a one-shot session is a
\* stable sort of the fetch order: the items reach PrintObj in non-decreasing
\* key order, and items with equal keys in their fetch order.
SortApplies == ropts.SortBy /\ Len(infos) > 1

CallKey(n) == infos[printCalls[n][1]].key

C16_StableSort ==
    (rpc = "loop" \/ LoopReturned) /\ SortApplies =>
        /\ sorter # <<>>
        /\ \A a, b \in 1..Len(printCalls) :
              a < b => \/ CallKey(a) < CallKey(b)
                       \/ (CallKey(a) = CallKey(b) /\ printCalls[a][1] < printCalls[b][1])

\* the sort moves an item past two others that keep their order
C16_Witness ==
    /\ LoopReturned /\ SortApplies
    /\ Len(infos) = 3
    /\ infos[1].key = infos[2].key /\ infos[3].key < infos[1].key
    /\ printCalls = <<<<3>>, <<1>>, <<2>>>>

----------------------------------------------------------------------------
\* C19: in a one-shot session a zero-row table causes neither a PrintObj
\* call nor a flush; every other item has the sink flushed immediately before
\* its PrintObj call, so the buffer never holds more than one item's output,
\* and nothing is left in it once the session has returned.
C19_FlushBeforeEachPrint ==
    /\ [](Len(buf) <= 1)
    /\ [](rpc = "done" => buf = <<>>)
    /\ [](rpc = "loop" => /\ printCalls = ExpectedCalls(ix - 1)
                          /\ flushes = Len(printCalls))
    /\ [][rpc = "loop" /\ rpc' = "loop" =>
             IF ZeroRowTable(infos[DisplayOrder[ix]])
             THEN /\ printCalls' = printCalls
                  /\ flushes' = flushes /\ outSink' = outSink /\ buf' = buf
             ELSE /\ printCalls' = Append(printCalls, <<DisplayOrder[ix]>>)
                  /\ flushes' = flushes + 1
                  /\ outSink' = outSink \o buf
                  /\ \A k \in 1..Len(buf') : buf'[k].ids = <<DisplayOrder[ix]>>]_vars

\* a zero-row table between two printed items: two calls, and one flush
\* before each of them plus the last one
C19_Witness ==
    /\ LoopReturned
    /\ Len(infos) = 3
    /\ ZeroRowTable(infos[2]) /\ ~ZeroRowTable(infos[1]) /\ ~ZeroRowTable(infos[3])
    /\ printCalls = <<<<1>>, <<3>>>>
    /\ flushes = 3
    /\ Len(outSink) = 2
    /\ buf = <<>>

----------------------------------------------------------------------------
\* C14: an output format the resolver rejects (unknown, or with a missing or
\* malformed argument) ends the command with a fatal error before any request
\* is issued to the server, in one-shot mode and in watch mode alike: the
\* resolution of Complete precedes the fetch of Run and of watch.
FormatRejected ==
    /\ Len(cflags.format) > 0
    /\ PrinterForOptions(cflags.template, cflags.format).err # ErrNone

\* nothing but the format is wrong with the invocation
OnlyFormatWrong == FormatRejected /\ ~cflags.raw /\ (cflags.args \/ cflags.mode # "get")

----------------------------------------------------------------------------
\* C17 as stated: in a stream of objects printed through the table printer
\* the header row is printed exactly once at the start of each maximal run of
\* same-kind objects: never twice within a run, and always again immediately
\* before the first object after a kind change.
StartsRun(n) == n = 1 \/ hstream[n] # hstream[n - 1]

\* the lines owed for the first n objects of the stream when headers are
\* printed (headers) or suppressed
RECURSIVE ExpectedLines(_, _)
ExpectedLines(n, headers) ==
    IF n = 0 THEN <<>>
    ELSE ExpectedLines(n - 1, headers)
           \o (IF headers /\ StartsRun(n) THEN <<<<"header", hstream[n]>>>> ELSE <<>>)
           \o <<<<"row", hstream[n]>>>>

WrittenLines == [k \in 1..Len(hout) |-> <<hout[k].t, hout[k].kind>>]

C17_HeaderOncePerRun == WrittenLines = ExpectedLines(Len(hstream), TRUE)

\* C17, amended: the header row is printed once at the start of each maximal
\* run of same-kind objects unless --no-headers was given, in which case no
\* header row is printed at all; every object gets its row either way.
C17_HeaderOncePerRunUnlessSuppressed ==
    WrittenLines = ExpectedLines(Len(hstream), ~hopts.NoHeaders)

\* pods, pods, services, pods: three runs, three headers, the second pod
\* without one
C17_Witness ==
    /\ ~hopts.NoHeaders
    /\ hstream = <<"pods", "pods", "services", "pods">>
    /\ WrittenLines = <<<<"header", "pods">>, <<"row", "pods">>, <<"row", "pods">>,
                        <<"header", "services">>, <<"row", "services">>,
                        <<"header", "pods">>, <<"row", "pods">>>>

----------------------------------------------------------------------------
\* C18: after setNamespace(ns) has succeeded without reporting "already
\* using", the current-context of the kubeconfig names a context whose
\* namespace is ns, whose cluster is the one given with --cluster (or, if
\* none was given, that of the previously current context) and whose auth
\* info is that of the previously current context.
SetNamespaceSucceeds ==
    /\ npc = "validated" /\ npc' = "done"
    /\ Len(nopts.newNamespace) > 0
    /\ nret' = ""
    /\ nout' = <<<<"namespace changed to", nopts.newNamespace>>>>

C18_CurrentContextQualifies ==
    [][SetNamespaceSucceeds =>
          LET prev == rawConfig.Contexts[rawConfig.CurrentContext]
              name == kubeconfig'.CurrentContext
          IN  /\ name \in DOMAIN kubeconfig'.Contexts
              /\ kubeconfig'.Contexts[name].Namespace = nopts.newNamespace
              /\ kubeconfig'.Contexts[name].Cluster =
                    (IF Len(nopts.newClusterValue) > 0 THEN nopts.newClusterValue
                     ELSE prev.Cluster)
              /\ kubeconfig'.Contexts[name].AuthInfo = prev.AuthInfo]_vars

\* kubectl ns dev --cluster k2, no context fits: dev/k2/u2 is created and
\* made current
C18_Witness ==
    /\ npc = "done" /\ nret = ""
    /\ nopts = [newContextName |-> <<>>, newClusterValue |-> <<"k2">>,
                newNamespace |-> <<"dev">>]
    /\ nout = <<<<"namespace changed to", <<"dev">>>>>>
    /\ kubeconfig.CurrentContext = <<"dev", "/", "k2", "/", "u2">>
    /\ kubeconfig.Contexts[kubeconfig.CurrentContext] =
          [Namespace |-> <<"dev">>, Cluster |-> <<"k2">>, AuthInfo |-> <<"u2", "/", "x">>]
    /\ <<"c1">> \in DOMAIN kubeconfig.Contexts

----------------------------------------------------------------------------
\* the events the streaming callback received and did not render
SuppressedEvents == delivered - Len(RendersFrom("event"))

\* C29: in a single-object watch the suppression of the first streamed event
\* never loses output: whenever an event has been suppressed, INITIAL_SNAPSHOT
\* has rendered the object in the same run, and no event is suppressed in a
\* watch-only run.
C29_SuppressionLosesNothing ==
    Streamed /\ ~wopts.isList /\ SuppressedEvents > 0 =>
        /\ ~wopts.WatchOnly
        /\ Len(RendersFrom("snapshot")) = 1

----------------------------------------------------------------------------
\* the entries of the sink that came from the snapshot
SnapshotOutput == SelectSeq(wout, LAMBDA r : r.from = "snapshot")

\* C26: in a watch that is not watch-only all snapshot output has reached the
\* sink before the subscription is opened: the tab writer holds nothing once
\* the subscription exists, no event output precedes snapshot output in the
\* sink, and an event is written only while the tab writer is empty.
C26_SnapshotFlushedBeforeSubscription ==
    /\ [](sub # NoSub => writer = <<>>)
    /\ [](sub # NoSub /\ ~wopts.WatchOnly =>
             /\ Len(SnapshotOutput) = Len(fetched)
             /\ \A i \in 1..Len(fetched) : wout[i].from = "snapshot" /\ wout[i].id = i)
    /\ [](\A i, j \in 1..Len(wout) :
             i < j => ~(wout[i].from = "event" /\ wout[j].from = "snapshot"))
    /\ [][Len(wout') > Len(wout) /\ wout'[Len(wout')].from = "event"
             => writer = <<>> /\ writer' = <<>>]_vars

\* a list of two items, both in the sink, then an event after them
C26_Witness ==
    /\ sub # NoSub
    /\ ~wopts.WatchOnly /\ wopts.isList
    /\ Len(fetched) = 2
    /\ Len(wout) = 3
    /\ wout[1].from = "snapshot" /\ wout[2].from = "snapshot" /\ wout[3].from = "event"
    /\ writer = <<>>

----------------------------------------------------------------------------
\* C21: cancellation never interrupts an in-flight render: a PrintObj call
\* that has started for a streamed event returns, and its output is in the
\* sink, before the loop or the process exits because of an interrupt.
C21_RenderNeverInterrupted ==
    intr /\ wpc \in {"returned", "exited"} =>
        /\ inflight = <<>>
        /\ \A i \in 1..Len(RendersFrom("event")) :
              RendersFrom("event")[i].id \in {wout[k].id : k \in {j \in 1..Len(wout) : wout[j].from = "event"}}
              \/ untilErr # NoError

----------------------------------------------------------------------------
\* the iterations of the render loop that took the item at fetch position p
VisitsOf(p) == {i \in 1..Len(infos) : DisplayOrder[i] = p}

CallsOn(p) == {k \in 1..Len(printCalls) : printCalls[k] = <<p>>}

\* C22: in a one-shot session the mapping from display position to fetched
\* item is a permutation: sorted or not, the render loop visits every fetched
\* item exactly once, and a sorter exists only when a sort field was given
\* and more than one item was fetched.
C22_DisplayOrderIsPermutation ==
    (rpc = "loop" \/ LoopReturned) =>
        /\ sorter # <<>> => /\ SortApplies
                            /\ Len(sorter) = Len(infos)
                            /\ \A i \in 1..Len(sorter) : sorter[i] \in 1..Len(infos)
        /\ SortApplies => sorter # <<>>
        /\ \A p \in 1..Len(infos) : Cardinality(VisitsOf(p)) = 1
        /\ LoopReturned =>
              \A p \in 1..Len(infos) :
                 Cardinality(CallsOn(p)) = (IF ZeroRowTable(infos[p]) THEN 0 ELSE 1)

\* three items, the first with the larger key: it is visited last, the
\* others once each before it
C22_Witness ==
    /\ LoopReturned /\ SortApplies
    /\ Len(infos) = 3
    /\ sorter = <<2, 3, 1>>
    /\ printCalls = <<<<2>>, <<3>>, <<1>>>>

----------------------------------------------------------------------------
\* the item at fetch position p can be reinterpreted as a table
Reinterprets(p) == infos[p].kind = "Table" /\ infos[p].decodes

\* C23: when server-side tables are preferred an item that cannot be
\* reinterpreted as a table (its kind is not "Table", or encoding or decoding
\* fails) keeps its original object, is still handed to PrintObj, and adds no
\* error to the result; an item that can is replaced by the decoded table
\* before rendering. When they are not preferred nothing is reinterpreted.
C23_TableFallbackNotFatal ==
    (rpc = "loop" \/ LoopReturned) =>
        /\ \A p \in 1..Len(infos) :
              infos[p].isTable <=> (ropts.ServerPrint /\ Reinterprets(p))
        /\ LoopReturned =>
              /\ \A p \in 1..Len(infos) :
                    ~Reinterprets(p) => Cardinality(CallsOn(p)) = 1
              /\ ret = NewAggregate(FailedCalls(printCalls))
              /\ \A k \in 1..Len(ret.errs) : ret.errs[k].msg \in PrintErrs

\* a pod, a Table that does not decode and a Table that does: all three are
\* printed and the session returns no error
C23_Witness ==
    /\ LoopReturned
    /\ ropts.ServerPrint
    /\ Len(infos) = 3
    /\ infos[1].kind = "Pod" /\ ~infos[1].isTable
    /\ infos[2].kind = "Table" /\ ~infos[2].decodes /\ ~infos[2].isTable
    /\ infos[3].kind = "Table" /\ infos[3].isTable /\ infos[3].rows = 1
    /\ printCalls = <<<<1>>, <<2>>, <<3>>>>
    /\ ret = NoError

----------------------------------------------------------------------------
\* a one-shot run that reached printGeneric and returned
GenericReturned == rpc = "done" /\ ropts.GenericPrinter /\ ~ropts.builderErr

AllItems == [i \in 1..Len(infos) |-> i]

\* what printGeneric hands to PrintObj is a List
PrintsList == ~ropts.singleItemImplied \/ Len(infos) > 1 \/ infos[1].kind = "List"

\* the shape and the count of the PrintObj calls of printGeneric, and its not
\* indexing an empty item sequence
GenericCalls ==
    /\ Len(printCalls) <= 1
    /\ printCalls # <<>> => printCalls = <<AllItems>>
    /\ outSink # <<>> => printCalls # <<>> /\ outSink = <<Chunk(PrintsList, AllItems)>>
    /\ ret # Leaf("panic: index out of range")

\* C27 as stated: with a generic renderer a one-shot run calls PrintObj at
\* most once, on a List of all items, on a List rebuilt from the members of a
\* single list item, or on the single implied item itself; it calls PrintObj
\* zero times only when nothing was fetched and ignore-not-found is set, and
\* never indexes an empty item sequence.
C27_GenericPrintsOnce ==
    GenericReturned =>
        /\ GenericCalls
        /\ printCalls = <<>> => infos = <<>> /\ ropts.IgnoreNotFound

\* C27, amended: the same, except that PrintObj is also not called when
\* printGeneric returns an error before rendering: the fetch of a single
\* implied item failed, or composing or decoding the list failed. Without an
\* error it calls PrintObj zero times only when nothing was fetched and
\* ignore-not-found is set.
C27_GenericPrintsOnceUnlessError ==
    GenericReturned =>
        /\ GenericCalls
        /\ printCalls = <<>> => ret # NoError \/ (infos = <<>> /\ ropts.IgnoreNotFound)
        /\ ret = NoError /\ ~(infos = <<>> /\ ropts.IgnoreNotFound) => Len(printCalls) = 1

\* three items, no single item implied: one call, one List of the three
C27_Witness ==
    /\ GenericReturned
    /\ ~ropts.singleItemImplied
    /\ Len(infos) = 3
    /\ printCalls = <<<<1, 2, 3>>>>
    /\ outSink = <<Chunk(TRUE, <<1, 2, 3>>)>>
    /\ ret = NoError

----------------------------------------------------------------------------
\* a call of setNamespace, whatever it returns
SetNamespaceCalled == npc = "validated" /\ npc' = "done" /\ Len(nopts.newNamespace) > 0

\* cfg holds every context of rawConfig as it was, and at most one more
KeepsContexts(cfg) ==
    /\ \A n \in DOMAIN rawConfig.Contexts :
          n \in DOMAIN cfg.Contexts /\ cfg.Contexts[n] = rawConfig.Contexts[n]
    /\ Cardinality(DOMAIN cfg.Contexts \ DOMAIN rawConfig.Contexts) <= 1

\* C30: setNamespace never changes the namespace, cluster or auth info of a
\* context that was in the kubeconfig, whatever --context, --cluster and the
\* existing names are: it adds at most one context, under a name that was not
\* in use, and otherwise only changes current-context; when it reports
\* "already using namespace" it changes nothing and does not write the config.
C30_ExistingContextsUntouched ==
    [][SetNamespaceCalled =>
          /\ KeepsContexts(rawConfig')
          /\ KeepsContexts(kubeconfig')
          /\ nout' = <<<<"already using namespace", nopts.newNamespace>>>>
                => rawConfig' = rawConfig /\ kubeconfig' = kubeconfig]_vars

----------------------------------------------------------------------------
\* the flag structs whose ToPrinter returns (printer, matched, error)
BuilderEntries ==
    {"JSONYamlPrintFlags", "HumanPrintFlags", "GoTemplatePrintFlags", "JSONPathPrintFlags",
     "TemplatePrintFlags"}

\* C28: a ToPrinter of JSONYamlPrintFlags, HumanPrintFlags, GoTemplatePrintFlags,
\* JSONPathPrintFlags or TemplatePrintFlags returns a non-nil error only
\* together with matched = true.
C28_ErrorOnlyWithMatched ==
    entry \in BuilderEntries /\ res.err # ErrNone => res.matched

----------------------------------------------------------------------------
\* a call of a resolution function returns
ResolveCall == entry = "none" /\ entry' # "none"

\* C25: a resolution call leaves the flags object as it was: neither the bound
\* template argument nor the stored output format changes, so a later
\* resolution on the same flags sees what a first one would.
C25_ResolutionLeavesFlags ==
    [][ResolveCall => TemplateArgument' = TemplateArgument /\ OutputFormat' = OutputFormat]_vars

----------------------------------------------------------------------------
\* the format kinds whose argument is a path
FileKinds == {"go-template-file", "jsonpath-file", "templatefile"}

\* the call's format is a file kind, alone or followed by "=<path>"
IsFileKind(format) ==
    /\ Len(format) >= 1
    /\ format[1] \in FileKinds
    /\ Len(format) = 1 \/ format[2] = EQ

\* the path of the call: what follows "=", else the bound template argument
FilePath(format, template) ==
    IF Len(format) > 1 THEN SliceFrom(format, 2)
    ELSE IF template = NilPtr THEN <<>> ELSE template[1]

\* the entry points that compile a template themselves
CompilingEntries ==
    {"GetStandardPrinter", "GetStandardPrinterWithFlags", "GoTemplatePrintFlags",
     "JSONPathPrintFlags", "TemplatePrintFlags", "Complete"}

\* the call did not pass the format on as "not matched"
HandledByCall == res.matched \/ res.err # ErrNone

\* C24: on every entry point a file kind's argument is a path: an empty or
\* unreadable path is a resolution error, and a printer that is returned was
\* compiled from the file's contents, never from the path string.
C24_FileKindsCompileFileContents ==
    entry \in CompilingEntries /\ IsFileKind(inFormat) /\ HandledByCall =>
        LET path == FilePath(inFormat, inTemplate)
        IN  IF Len(path) = 0 \/ ~Readable(path)
            THEN res.err # ErrNone
            ELSE res.err = ErrNone => res.printer.arg = FileData(path)

====
